---- MODULE Spec2Model ----
(***************************************************************************)
(* Model of the rbxauth package: the Auth v2 client (Config.requestAPI,    *)
(* LoginCred, LoginID, Logout, getUsername), the two-step verification     *)
(* Step (Verify, Resend) and the interactive Stream prompt.                *)
(*                                                                         *)
(* A call is modelled as a frame that advances by one client.Do round trip *)
(* per step; the remote endpoints answer each request with an arbitrary    *)
(* response (or the transport fails).                                      *)
(***************************************************************************)
EXTENDS Integers, Sequences, FiniteSets, TLC

VARIABLES
    cfg,      \* the Config value held by the caller (also Stream.Config)
    step,     \* the Step object held by the caller (has = FALSE: no Step)
    frame,    \* frame[t]: the call in progress on thread t
    ret,      \* what the call that returned last has returned
    prompt,   \* the Stream.PromptCred call in progress
    jar,      \* the cookie text last written, and what was last read back
    legacy    \* the client of the legacy implementations and its last call

vars == <<cfg, step, frame, ret, prompt, jar, legacy>>

----------------------------------------------------------------------------
(* Bounds of the model *)

\* cap on the client.Do round trips of one call (the recursion of requestAPI)
MaxAttempts == 3

\* cap on the length of the cookie lists handed to WriteCookies
MaxCookies == 2

----------------------------------------------------------------------------
(* Values *)

Threads == {"cfg", "step"}

Tokens == {"t1", "t2"}

DefaultLoginEndpoint == "https://auth.roblox.com/v2/login"
DefaultLogoutEndpoint == "https://auth.roblox.com/v2/logout"
DefaultVerifyEndpoint == "https://auth.roblox.com/v2/twostepverification/verify"
DefaultResendEndpoint == "https://auth.roblox.com/v2/twostepverification/resend"
DefaultUserIDEndpoint == "https://api.roblox.com/users/%d"

Username == "Username"
Email == "Email"
PhoneNumber == "PhoneNumber"

\* Config: the zero value, and a value with every endpoint overridden (to
\* which Configs adds a token).
ZeroConfig ==
    [Token |-> "", LoginEndpoint |-> "", LogoutEndpoint |-> "",
     VerifyEndpoint |-> "", ResendEndpoint |-> "", UserIDEndpoint |-> ""]

CustomConfig ==
    [Token |-> "", LoginEndpoint |-> "http://stub/login",
     LogoutEndpoint |-> "http://stub/logout",
     VerifyEndpoint |-> "http://stub/verify",
     ResendEndpoint |-> "http://stub/resend",
     UserIDEndpoint |-> "http://stub/users/%d"]

Configs == {ZeroConfig, [CustomConfig EXCEPT !.Token = "t1"]}

\* Strings whose characters matter (identifiers) are sequences of characters.
Digits == {"0", "1", "2", "3", "4", "5", "6", "7", "8", "9"}

DigitVal(ch) ==
    CASE ch = "0" -> 0 [] ch = "1" -> 1 [] ch = "2" -> 2 [] ch = "3" -> 3
      [] ch = "4" -> 4 [] ch = "5" -> 5 [] ch = "6" -> 6 [] ch = "7" -> 7
      [] ch = "8" -> 8 [] ch = "9" -> 9

\* 2^63 - 1 and 2^63 as digit sequences (the int64 range of strconv.ParseInt).
MaxInt64Digits == <<9,2,2,3,3,7,2,0,3,6,8,5,4,7,7,5,8,0,7>>
MinInt64Digits == <<9,2,2,3,3,7,2,0,3,6,8,5,4,7,7,5,8,0,8>>

RECURSIVE StripZeros(_)
StripZeros(ds) ==
    IF Len(ds) > 1 /\ ds[1] = 0 THEN StripZeros(Tail(ds)) ELSE ds

RECURSIVE LexLeq(_, _)
LexLeq(a, b) ==
    IF a = <<>> THEN TRUE
    ELSE IF a[1] # b[1] THEN a[1] < b[1]
    ELSE LexLeq(Tail(a), Tail(b))

\* a <= b for digit sequences without leading zeros
MagLeq(a, b) ==
    IF Len(a) # Len(b) THEN Len(a) < Len(b) ELSE LexLeq(a, b)

\* An int64: sign and magnitude (decimal digits, no leading zeros).
Int64(neg, mag) == [neg |-> neg /\ mag # <<0>>, mag |-> mag]

NoInt == [neg |-> FALSE, mag |-> <<>>]

\* strconv.ParseInt(s, 10, 64): ok is FALSE on a syntax or range error.
MutParseIntNoRange(s) ==
    LET signed == Len(s) > 0 /\ s[1] \in {"+", "-"}
        body == IF signed THEN Tail(s) ELSE s
    IN  IF body = <<>> \/ \E i \in 1..Len(body) : body[i] \notin Digits
        THEN [ok |-> FALSE, val |-> NoInt]
        ELSE [ok |-> TRUE,
              val |-> Int64(s[1] = "-",
                            StripZeros([i \in 1..Len(body) |-> DigitVal(body[i])]))]

ParseInt(s) ==
    LET signed == Len(s) > 0 /\ s[1] \in {"+", "-"}
        neg == Len(s) > 0 /\ s[1] = "-"
        body == IF signed THEN Tail(s) ELSE s
    IN  IF body = <<>> \/ \E i \in 1..Len(body) : body[i] \notin Digits
        THEN [ok |-> FALSE, val |-> NoInt]
        ELSE LET mag == StripZeros([i \in 1..Len(body) |-> DigitVal(body[i])])
                 lim == IF neg THEN MinInt64Digits ELSE MaxInt64Digits
             IN  IF MagLeq(mag, lim)
                 THEN [ok |-> TRUE, val |-> Int64(neg, mag)]
                 ELSE [ok |-> FALSE, val |-> NoInt]

\* strings.ToLower on the credential types the model draws from
ToLower(s) ==
    CASE s = "UserID" -> "userid"
      [] s = "USERID" -> "userid"
      [] s = "Username" -> "username"
      [] s = "Email" -> "email"
      [] s = "PhoneNumber" -> "phonenumber"
      [] OTHER -> s

----------------------------------------------------------------------------
(* Errors *)

\* An error value: kind "nil" with status 0 is the nil error.  status is the
\* code of a wrapping statusError (0: not wrapped), errs the codes of an
\* errorsResponse, ctx the fmt.Errorf("...: %w") prefixes, outermost first.
NoErr == [kind |-> "nil", status |-> 0, errs |-> <<>>, ctx |-> <<>>]

Err(kind) == [kind |-> kind, status |-> 0, errs |-> <<>>, ctx |-> <<>>]

ApiErr(errs) == [kind |-> "api", status |-> 0, errs |-> errs, ctx |-> <<>>]

IsErr(e) == e.kind # "nil" \/ e.status # 0

\* ifStatus wraps err in a statusError if code is not 2XX.
ifStatus(code, err) ==
    IF code < 200 \/ code >= 300 THEN [err EXCEPT !.status = code] ELSE err

\* the deferred  if err != nil { err = fmt.Errorf(prefix+": %w", err) }
Wrap(prefix, e) ==
    IF IsErr(e) THEN [e EXCEPT !.ctx = <<prefix>> \o @] ELSE e

\* The value e has the method StatusCode() (lines 49-52): it is a statusError
\* itself; the *fmt.wrapError that fmt.Errorf("...: %w", err) returns has
\* only Error and Unwrap.
ImplementsStatusCode(e) == e.status # 0 /\ e.ctx = <<>>

----------------------------------------------------------------------------
(* Responses and their decoding *)

Names == {<<"a">>}
Statuses == {200, 403, 500}
CookieLists == {<<>>, <<"c1">>}
\* lists of the codes of the "errors" key: none, the token validation
\* failure (code 0), and another error followed by a code 0
ErrorLists == {<<>>, <<0>>, <<1, 0>>}

\* status line, X-CSRF-TOKEN header and Set-Cookie headers of a response;
\* the endpoints set cookies on 2XX responses only
Heads ==
    {h \in [StatusCode : Statuses, token : {""} \cup Tokens,
            cookies : CookieLists] :
       h.cookies # <<>> => h.StatusCode = 200}

Absent(zero) == [has |-> FALSE, val |-> zero]
Present(v) == [has |-> TRUE, val |-> v]

NoTsv == [MediaType |-> "", Ticket |-> ""]

\* The JSON keys a response body may carry; a key that is absent has has = FALSE.
NoBody ==
    [errors |-> Absent(<<>>), user |-> Absent(<<>>), tsv |-> Absent(NoTsv),
     mediaType |-> Absent(""), ticket |-> Absent(""), Username |-> Absent(<<>>)]

ErrorKeys == {Absent(<<>>)} \cup {Present(e) : e \in ErrorLists}

\* Bodies by the endpoint that sends them (keys the decoding struct of the
\* operation does not have are ignored by encoding/json and left out here).
Bodies(op) ==
    CASE op = "login" ->
           {[NoBody EXCEPT !.errors = e, !.user = u, !.tsv = d] :
              e \in ErrorKeys,
              u \in {Absent(<<>>)} \cup {Present(n) : n \in Names},
              d \in {Absent(NoTsv),
                     Present([MediaType |-> "Email", Ticket |-> "T1"])}}
      [] op = "resend" ->
           {[NoBody EXCEPT !.errors = e, !.mediaType = m, !.ticket = k] :
              e \in ErrorKeys,
              m \in {Absent(""), Present("SMS")},
              k \in {Absent(""), Present("T2")}}
      [] op = "lookup" ->
           {[NoBody EXCEPT !.errors = e, !.Username = u] :
              e \in ErrorKeys,
              u \in {Absent(<<>>)} \cup {Present(n) : n \in Names}}
      [] OTHER ->
           {[NoBody EXCEPT !.errors = e] : e \in ErrorKeys}

\* What client.Do yields: fail (a transport error, no response), or a response
\* with a status, an X-CSRF-TOKEN header ("" when absent), Set-Cookie headers
\* and a body that is JSON (ok) or not.
FailedDo ==
    [fail |-> TRUE, StatusCode |-> 0, token |-> "", cookies |-> <<>>,
     ok |-> FALSE, body |-> NoBody]

Response(h, ok, body) ==
    [fail |-> FALSE, StatusCode |-> h.StatusCode, token |-> h.token,
     cookies |-> h.cookies, ok |-> ok, body |-> body]

Responses(op) ==
    {FailedDo}
    \cup {Response(h, FALSE, NoBody) : h \in Heads}
    \cup {Response(h, TRUE, b) : h \in Heads, b \in Bodies(op)}

\* The value apiResp points to (loginResponse, errorsResponse, the anonymous
\* structs of Resend and getUsername), zero valued.
ZeroApiResp ==
    [Errors |-> <<>>, User |-> Absent(<<>>),
     TwoStepVerificationData |-> Absent(NoTsv),
     MediaType |-> "", Ticket |-> "", Username |-> <<>>]

\* json.Decoder.Decode into a: a key of the body overwrites its field, a field
\* whose key is absent keeps the value it had.

Decode(a, b) ==
    [Errors |-> IF b.errors.has THEN b.errors.val ELSE a.Errors,
     User |-> IF b.user.has THEN b.user ELSE a.User,
     TwoStepVerificationData |->
         IF b.tsv.has THEN b.tsv ELSE a.TwoStepVerificationData,
     MediaType |-> IF b.mediaType.has THEN b.mediaType.val ELSE a.MediaType,
     Ticket |-> IF b.ticket.has THEN b.ticket.val ELSE a.Ticket,
     Username |-> IF b.Username.has THEN b.Username.val ELSE a.Username]

\* []*http.Cookie: nil, or a (possibly empty) list.
NilCookies == [nil |-> TRUE, list |-> <<>>]

\* resp.Cookies(): the cookies of the Set-Cookie headers, never nil.
Cookies(r) == [nil |-> FALSE, list |-> r.cookies]

----------------------------------------------------------------------------
(* Config.requestAPI *)

\* One invocation of requestAPI up to its return or its recursive call, with r
\* the outcome of client.Do.  Yields the config, the request as sent, apiResp,
\* whether requestAPI calls itself again (retry, on req.Clone()), and the
\* returned resp (hasResp: non-nil) and err.
MutRequestAPIKeepsFirstToken(c, req, apiResp, r) ==
    LET sent == [req EXCEPT !.token = IF c.Token # "" THEN c.Token ELSE @,
                            !.bodyRead = TRUE]
        c1 == IF ~r.fail /\ r.token # "" /\ c.Token = ""
              THEN [c EXCEPT !.Token = r.token] ELSE c
        out == [c |-> c1, req |-> sent, apiResp |-> apiResp, retry |-> FALSE,
                hasResp |-> FALSE, resp |-> FailedDo, err |-> NoErr]
    IN  IF r.fail THEN [out EXCEPT !.err = Err("transport")]
        ELSE IF ~r.ok
        THEN [out EXCEPT !.hasResp = TRUE, !.resp = r,
                         !.err = ifStatus(r.StatusCode, Err("decode"))]
        ELSE LET a == Decode(apiResp, r.body) IN
             IF Len(a.Errors) > 0
             THEN IF r.StatusCode = 403 /\ a.Errors[1] = 0 /\ sent.token = ""
                  THEN [out EXCEPT !.apiResp = a, !.retry = TRUE]
                  ELSE [out EXCEPT !.apiResp = a,
                                   !.err = ifStatus(r.StatusCode, ApiErr(a.Errors))]
             ELSE [out EXCEPT !.apiResp = a, !.hasResp = TRUE, !.resp = r,
                              !.err = ifStatus(r.StatusCode, NoErr)]

MutRequestAPIRetriesTransport(c, req, apiResp, r) ==
    LET sent == [req EXCEPT !.token = IF c.Token # "" THEN c.Token ELSE @,
                            !.bodyRead = TRUE]
        c1 == IF ~r.fail /\ r.token # "" THEN [c EXCEPT !.Token = r.token] ELSE c
        out == [c |-> c1, req |-> sent, apiResp |-> apiResp, retry |-> FALSE,
                hasResp |-> FALSE, resp |-> FailedDo, err |-> NoErr]
    IN  IF r.fail THEN [out EXCEPT !.retry = TRUE]
        ELSE IF ~r.ok
        THEN [out EXCEPT !.hasResp = TRUE, !.resp = r,
                         !.err = ifStatus(r.StatusCode, Err("decode"))]
        ELSE LET a == Decode(apiResp, r.body) IN
             IF Len(a.Errors) > 0
             THEN IF r.StatusCode = 403 /\ a.Errors[1] = 0 /\ sent.token = ""
                  THEN [out EXCEPT !.apiResp = a, !.retry = TRUE]
                  ELSE [out EXCEPT !.apiResp = a,
                                   !.err = ifStatus(r.StatusCode, ApiErr(a.Errors))]
             ELSE [out EXCEPT !.apiResp = a, !.hasResp = TRUE, !.resp = r,
                              !.err = ifStatus(r.StatusCode, NoErr)]

MutRequestAPINoTokenHeader(c, req, apiResp, r) ==
    LET sent == [req EXCEPT !.bodyRead = TRUE]
        c1 == IF ~r.fail /\ r.token # "" THEN [c EXCEPT !.Token = r.token] ELSE c
        out == [c |-> c1, req |-> sent, apiResp |-> apiResp, retry |-> FALSE,
                hasResp |-> FALSE, resp |-> FailedDo, err |-> NoErr]
    IN  IF r.fail THEN [out EXCEPT !.err = Err("transport")]
        ELSE IF ~r.ok
        THEN [out EXCEPT !.hasResp = TRUE, !.resp = r,
                         !.err = ifStatus(r.StatusCode, Err("decode"))]
        ELSE LET a == Decode(apiResp, r.body) IN
             IF Len(a.Errors) > 0
             THEN IF r.StatusCode = 403 /\ a.Errors[1] = 0 /\ sent.token = ""
                  THEN [out EXCEPT !.apiResp = a, !.retry = TRUE]
                  ELSE [out EXCEPT !.apiResp = a,
                                   !.err = ifStatus(r.StatusCode, ApiErr(a.Errors))]
             ELSE [out EXCEPT !.apiResp = a, !.hasResp = TRUE, !.resp = r,
                              !.err = ifStatus(r.StatusCode, NoErr)]

RequestAPI(c, req, apiResp, r) ==
    LET sent == [req EXCEPT !.token = IF c.Token # "" THEN c.Token ELSE @,
                            !.bodyRead = TRUE]
        c1 == IF ~r.fail /\ r.token # "" THEN [c EXCEPT !.Token = r.token] ELSE c
        out == [c |-> c1, req |-> sent, apiResp |-> apiResp, retry |-> FALSE,
                hasResp |-> FALSE, resp |-> FailedDo, err |-> NoErr]
    IN  IF r.fail THEN [out EXCEPT !.err = Err("transport")]
        ELSE IF ~r.ok
        THEN [out EXCEPT !.hasResp = TRUE, !.resp = r,
                         !.err = ifStatus(r.StatusCode, Err("decode"))]
        ELSE LET a == Decode(apiResp, r.body) IN
             IF Len(a.Errors) > 0
             THEN IF r.StatusCode = 403 /\ a.Errors[1] = 0 /\ sent.token = ""
                  THEN [out EXCEPT !.apiResp = a, !.retry = TRUE]
                  ELSE [out EXCEPT !.apiResp = a,
                                   !.err = ifStatus(r.StatusCode, ApiErr(a.Errors))]
             ELSE [out EXCEPT !.apiResp = a, !.hasResp = TRUE, !.resp = r,
                              !.err = ifStatus(r.StatusCode, NoErr)]

\* The request as client.Do received it in the invocation with outcome o of
\* requestAPI(req): the token header set, and the Body reader as req had it
\* (req.Clone() copies the Body field, that is, the same reader).
AsSent(req, o) == [o.req EXCEPT !.bodyRead = req.bodyRead]

----------------------------------------------------------------------------
(* Requests *)

Endpoint(configured, default) == IF configured = "" THEN default ELSE configured

\* An *http.Request: token is its X-CSRF-TOKEN header ("": not set), bodyRead
\* tells whether its Body reader has already been consumed by a client.Do.
Request(op, method, url, headers, body) ==
    [op |-> op, method |-> method, url |-> url, headers |-> headers,
     token |-> "", body |-> body, bodyRead |-> FALSE]

NoRequest == Request("", "", "", {}, <<>>)

\* Cred holds credentials used to identify an account.
Cred(type, ident) == [Type |-> type, Ident |-> ident]

\* LoginCred, lines 156-157: is the Ident to be parsed as a user ID?
MutIsUserIDLegacy(cred) == ToLower(cred.Type) = "UserID"

IsUserID(cred) == ToLower(cred.Type) = "userid"

\* LoginCred, lines 168-183: the login request for the (rewritten) credentials.

LoginRequest(c, cred, password) ==
    Request("login", "POST", Endpoint(c.LoginEndpoint, DefaultLoginEndpoint),
            {"Content-Type", "Accept"},
            [ctype |-> cred.Type, cvalue |-> cred.Ident, password |-> password])

\* Logout, lines 232-243
LogoutRequest(c, cookies) ==
    Request("logout", "POST", Endpoint(c.LogoutEndpoint, DefaultLogoutEndpoint),
            {"Accept"}, [cookies |-> cookies])

\* getUsername, lines 259-263: fmt.Sprintf(endpoint, userID)
LookupRequest(c, userID) ==
    Request("lookup", "GET", Endpoint(c.UserIDEndpoint, DefaultUserIDEndpoint),
            {}, [userID |-> userID])

\* Verify, lines 30-44: apiReq is a copy of s.req with the code filled in.
VerifyRequest(s, code, remember) ==
    Request("verify", "POST",
            Endpoint(s.cfg.VerifyEndpoint, DefaultVerifyEndpoint),
            {"Content-Type", "Accept"},
            [s.req EXCEPT !.Code = code, !.RememberDevice = remember])

\* Resend, lines 61-71: the embedded twoStepVerificationTicketRequest only.
ResendRequest(s) ==
    Request("resend", "POST",
            Endpoint(s.cfg.ResendEndpoint, DefaultResendEndpoint),
            {"Accept"},
            [Username |-> s.req.Username, Ticket |-> s.req.Ticket,
             ActionType |-> s.req.ActionType])

----------------------------------------------------------------------------
(* Step *)

ZeroStepRequest ==
    [Username |-> <<>>, Ticket |-> "", ActionType |-> "", Code |-> <<>>,
     RememberDevice |-> FALSE]

\* has = FALSE is the nil *Step.
NoStep ==
    [has |-> FALSE, cfg |-> ZeroConfig, req |-> ZeroStepRequest, MediaType |-> ""]

\* What LoginCred returns once requestAPI has returned o (lines 186-206).
\* panic: the nil dereference of apiResp.User at line 197.
LoginOutcome(cookies, stp, err, panic) ==
    [cookies |-> cookies, step |-> stp, err |-> err, panic |-> panic]

MutLoginCredReturnLeaky(c, o) ==
    IF IsErr(o.err)
    THEN LoginOutcome(IF o.hasResp THEN Cookies(o.resp) ELSE NilCookies,
                      NoStep, Wrap("login", o.err), FALSE)
    ELSE LoginOutcome(Cookies(o.resp), NoStep, NoErr, FALSE)

MutLoginCredReturnNoStep(c, o) ==
    IF IsErr(o.err)
    THEN LoginOutcome(NilCookies, NoStep, Wrap("login", o.err), FALSE)
    ELSE LoginOutcome(Cookies(o.resp), NoStep, NoErr, FALSE)

MutLoginCredReturnEarlyCopy(c, o) ==
    IF IsErr(o.err)
    THEN LoginOutcome(NilCookies, NoStep, Wrap("login", o.err), FALSE)
    ELSE IF o.apiResp.TwoStepVerificationData.has
    THEN IF ~o.apiResp.User.has
         THEN LoginOutcome(NilCookies, NoStep, NoErr, TRUE)
         ELSE LoginOutcome(
                Cookies(o.resp),
                [has |-> TRUE, cfg |-> [c EXCEPT !.Token = o.req.token],
                 req |-> [ZeroStepRequest EXCEPT
                            !.Username = o.apiResp.User.val,
                            !.Ticket = o.apiResp.TwoStepVerificationData.val.Ticket,
                            !.ActionType = "Login"],
                 MediaType |-> o.apiResp.TwoStepVerificationData.val.MediaType],
                NoErr, FALSE)
    ELSE LoginOutcome(Cookies(o.resp), NoStep, NoErr, FALSE)

LoginCredReturn(c, o) ==
    IF IsErr(o.err)
    THEN LoginOutcome(NilCookies, NoStep, Wrap("login", o.err), FALSE)
    ELSE IF o.apiResp.TwoStepVerificationData.has
    THEN IF ~o.apiResp.User.has
         THEN LoginOutcome(NilCookies, NoStep, NoErr, TRUE)
         ELSE LoginOutcome(
                Cookies(o.resp),
                [has |-> TRUE, cfg |-> c,
                 req |-> [ZeroStepRequest EXCEPT
                            !.Username = o.apiResp.User.val,
                            !.Ticket = o.apiResp.TwoStepVerificationData.val.Ticket,
                            !.ActionType = "Login"],
                 MediaType |-> o.apiResp.TwoStepVerificationData.val.MediaType],
                NoErr, FALSE)
    ELSE LoginOutcome(Cookies(o.resp), NoStep, NoErr, FALSE)

\* What Verify returns once requestAPI has returned o (step.go, lines 46-50).
VerifyReturn(o) ==
    IF IsErr(o.err)
    THEN [cookies |-> NilCookies, err |-> Wrap("verify", o.err)]
    ELSE [cookies |-> Cookies(o.resp), err |-> NoErr]

\* Verify's effect on the Step s it is called on: only s.cfg, through
\* requestAPI; apiReq is a copy of s.req (step.go, lines 30-32, 46).
MutVerifyStepStoresCode(s, req, o) ==
    [s EXCEPT !.cfg = o.c, !.req = req.body]

VerifyStep(s, req, o) ==
    [s EXCEPT !.cfg = o.c]

\* Resend's effect on the Step (step.go, lines 77-82).

ResendStep(s, o) ==
    IF IsErr(o.err)
    THEN [s EXCEPT !.cfg = o.c]
    ELSE [s EXCEPT !.cfg = o.c,
                   !.MediaType = o.apiResp.MediaType,
                   !.req.Ticket = o.apiResp.Ticket]

\* The error Resend returns: the func literal at lines 55-59 is called at
\* once, while err is still nil, so the "resend: " prefix is never added.
ResendReturn(o) == o.err

----------------------------------------------------------------------------
(* Calls in progress *)

\* What is remembered of a call for stating properties (not program state):
\* all403: every response so far was a 403 whose first error has code 0;
\* learned: the last non-empty X-CSRF-TOKEN header among the responses;
\* trig: a response with a token header made requestAPI call itself again;
\* anyTsv: some response carried twoStepVerificationData; pre: the Step when
\* a call on it began; failed: a client.Do of the chain failed; lookups: the
\* number of requests getUsername sent before it returned a name; finName:
\* the Username key of the last of their responses; lookupFailed: that
\* response was a failure (see FailedLookup).  all403, learned, trig,
\* anyTsv and failed are about the requestAPI chain in progress.
NoHist ==
    [all403 |-> TRUE, learned |-> "", trig |-> FALSE, anyTsv |-> FALSE,
     failed |-> FALSE, pre |-> NoStep, lookups |-> 0, finName |-> Absent(<<>>),
     lookupFailed |-> FALSE]

\* the outcome r of client.Do is a failed lookup: a transport error, a body
\* that does not decode, a status that is not 2XX, or API errors
FailedLookup(r) ==
    \/ r.fail \/ ~r.ok
    \/ r.StatusCode < 200 \/ r.StatusCode >= 300
    \/ (r.body.errors.has /\ r.body.errors.val # <<>>)

Is403Code0(r) ==
    /\ ~r.fail /\ r.ok /\ r.StatusCode = 403
    /\ r.body.errors.has /\ Len(r.body.errors.val) > 0
    /\ r.body.errors.val[1] = 0

Observe(h, r, o) ==
    [h EXCEPT !.all403 = @ /\ Is403Code0(r),
              !.learned = IF ~r.fail /\ r.token # "" THEN r.token ELSE @,
              !.trig = @ \/ (o.retry /\ r.token # ""),
              !.anyTsv = @ \/ (~r.fail /\ r.ok /\ r.body.tsv.has),
              !.failed = @ \/ r.fail]

\* sent counts the client.Do calls of the current requestAPI chain, log
\* holds the requests of that chain as they were sent, cred0 the credentials
\* as they were passed in.
IdleFrame ==
    [pc |-> "idle", api |-> "", op |-> "", c |-> ZeroConfig, gc |-> ZeroConfig,
     req |-> NoRequest, apiResp |-> ZeroApiResp, cred |-> Cred("", <<>>),
     password |-> <<>>, sent |-> 0, log |-> <<>>, cred0 |-> Cred("", <<>>),
     hist |-> NoHist]

\* The values the last call returned (done = FALSE: none yet, or a call is
\* in progress); nsent is the number of requests that call sent (those of
\* getUsername included), fin the
\* outcome of its last client.Do, last the request of that client.Do, cred0 the credentials of a LoginCred that
\* returned without sending any.
NoRet ==
    [done |-> FALSE, api |-> "", cookies |-> NilCookies, step |-> NoStep,
     err |-> NoErr, panic |-> FALSE, nsent |-> 0, cred0 |-> Cred("", <<>>),
     fin |-> FailedDo, last |-> NoRequest, hist |-> NoHist]

Returned(api, cookies, stp, err, panic, log, fin, hist) ==
    [NoRet EXCEPT !.done = TRUE, !.api = api, !.cookies = cookies,
                  !.step = stp, !.err = err, !.panic = panic,
                  !.nsent = hist.lookups + Len(log), !.fin = fin,
                  !.last = IF log = <<>> THEN NoRequest ELSE log[Len(log)],
                  !.hist = [hist EXCEPT !.lookups = 0,
                                        !.finName = Absent(<<>>)]]

\* an unrecovered panic ends the process
Crashed == ret.panic

Quiet == prompt.pc = "off" /\ \A t \in Threads : frame[t].pc = "idle"

\* The Step a call on a Step is made on: the one a login has just
\* returned, else the one the caller already drives.
CurrentStep == IF ret.done /\ ret.step.has THEN ret.step ELSE step

----------------------------------------------------------------------------
(* Inputs *)

\* 2^63, one more than the largest int64
Overflow ==
    <<"9","2","2","3","3","7","2","0","3","6","8","5","4","7","7","5","8","0","8">>

Creds ==
    {Cred(ty, <<"b">>) : ty \in {Username, Email, PhoneNumber, "Token"}}
    \cup {Cred("UserID", id) : id \in {<<"7">>, <<"7", "x">>, <<>>, Overflow}}

Passwords == {<<"p", "w">>}

UserIDs == {Int64(FALSE, <<7>>), Int64(FALSE, <<0>>)}

Codes == {<<>>, <<"1">>, <<"2">>}

----------------------------------------------------------------------------
(* Config: LoginCred, LoginID, Logout *)

\* LoginCred up to its first request (lines 156-183): return at once on a
\* malformed user ID, else go on to getUsername or to the login request.
LoginCredBegin(c, cred, password) ==
    IF IsUserID(cred)
    THEN LET p == ParseInt(cred.Ident)
         IN  IF ~p.ok
             THEN [next |-> "return", err |-> Err("parse user ID"),
                   req |-> NoRequest, cred |-> cred]
             ELSE [next |-> "lookup", err |-> NoErr,
                   req |-> LookupRequest(c, p.val),
                   cred |-> Cred("Username", cred.Ident)]
    ELSE [next |-> "login", err |-> NoErr,
          req |-> LoginRequest(c, cred, password), cred |-> cred]

\* func (c Config) LoginCred: c is a copy of the caller's Config.
LoginCred(cred, password) ==
    /\ frame["cfg"].pc = "idle" /\ ~Crashed
    /\ LET c == cfg
           b == LoginCredBegin(c, cred, password)
       IN  IF b.next = "return"
           THEN /\ ret' = [Returned("LoginCred", NilCookies, NoStep,
                                    Wrap("login", b.err), FALSE, <<>>,
                                    FailedDo, NoHist)
                             EXCEPT !.cred0 = cred]
                /\ UNCHANGED frame
           ELSE /\ frame' = [frame EXCEPT !["cfg"] =
                    [IdleFrame EXCEPT !.pc = "do", !.api = "LoginCred",
                                      !.op = b.next, !.c = c, !.gc = c,
                                      !.req = b.req, !.cred = b.cred,
                                      !.password = password,
                                      !.cred0 = cred]]
                /\ ret' = NoRet
    /\ UNCHANGED <<cfg, step>>

\* func (c Config) LoginID (lines 217-223): getUsername first.
LoginID(userID, password) ==
    /\ frame["cfg"].pc = "idle" /\ ~Crashed
    /\ frame' = [frame EXCEPT !["cfg"] =
          [IdleFrame EXCEPT !.pc = "do", !.api = "LoginID", !.op = "lookup",
                            !.c = cfg, !.gc = cfg,
                            !.req = LookupRequest(cfg, userID),
                            !.cred = Cred(Username, <<>>),
                            !.password = password]]
    /\ ret' = NoRet
    /\ UNCHANGED <<cfg, step>>

\* func (c Config) Logout (lines 225-247)
Logout(cookies) ==
    /\ frame["cfg"].pc = "idle" /\ ~Crashed
    /\ frame' = [frame EXCEPT !["cfg"] =
          [IdleFrame EXCEPT !.pc = "do", !.api = "Logout", !.op = "logout",
                            !.c = cfg, !.gc = cfg,
                            !.req = LogoutRequest(cfg, cookies)]]
    /\ ret' = NoRet
    /\ UNCHANGED <<cfg, step>>

\* The error of a failed getUsername as its caller returns it: LoginCred's
\* deferred wrapper adds "login", LoginID returns it as it is.
LookupFailure(api, err) ==
    IF api = "LoginCred"
    THEN Wrap("login", Wrap("user from ID", err))
    ELSE Wrap("user from ID", err)

\* getUsername returned a name: the test err != nil after it (lines 162-165
\* of LoginCred, 219-221 of LoginID) lets the login go on.
MutGotUsernameIgnoresStatus(o) == o.err.kind = "nil"

GotUsername(o) == ~IsErr(o.err)

\* A Config is passed and stored by value: LoginCred, LoginID, Logout and
\* getUsername have value receivers and Step.cfg is a copy of LoginCred's c
\* (line 193), so what requestAPI writes to the Token of one copy (c) never
\* reaches a Config held elsewhere (held).
MutCallerConfigShared(held, c) == c

CallerConfig(held, c) == held

\* One client.Do round trip, with outcome r, of the call f on the Config the
\* caller holds as held, and what follows it without another request: the
\* frame afterwards, whether the call returned, and what it returned.
ConfigStep(f, held, r) ==
    LET o == RequestAPI(IF f.op = "lookup" THEN f.gc ELSE f.c,
                        f.req, f.apiResp, r)
        h == Observe(f.hist, r, o)
        f1 == [f EXCEPT !.log = Append(@, AsSent(f.req, o)), !.hist = h,
                        !.sent = @ + 1, !.req = o.req,
                        !.apiResp = o.apiResp,
                        !.c = IF f.op = "lookup" THEN @ ELSE o.c,
                        !.gc = IF f.op = "lookup" THEN o.c ELSE @]
    IN  IF o.retry
        THEN [frame |-> f1, done |-> FALSE, ret |-> NoRet, cfg |-> held]
        ELSE IF f.op = "lookup" /\ GotUsername(o)
        THEN LET cred == [f.cred EXCEPT !.Ident = o.apiResp.Username]
             IN  [frame |->
                    [f1 EXCEPT !.op = "login", !.sent = 0, !.log = <<>>,
                               !.cred = cred,
                               !.req = LoginRequest(f.c, cred, f.password),
                               !.apiResp = ZeroApiResp,
                               !.hist = [NoHist EXCEPT
                                           !.lookups = f1.sent,
                                           !.finName = r.body.Username,
                                           !.lookupFailed = FailedLookup(r)]],
                  done |-> FALSE, ret |-> NoRet, cfg |-> held]
        ELSE LET out ==
                   CASE f.op = "lookup" ->
                          LoginOutcome(NilCookies, NoStep,
                                       LookupFailure(f.api, o.err), FALSE)
                     [] f.op = "login" -> LoginCredReturn(o.c, o)
                     [] OTHER ->
                          LoginOutcome(NilCookies, NoStep,
                                       Wrap("logout", o.err), FALSE)
             IN  [frame |-> IdleFrame, done |-> TRUE,
                  ret |-> Returned(f.api, out.cookies, out.step, out.err,
                                   out.panic, f1.log, r, h),
                  cfg |-> CallerConfig(held, f1.c)]

ConfigRound(r) ==
    LET n == ConfigStep(frame["cfg"], cfg, r)
    IN  /\ frame' = [frame EXCEPT !["cfg"] = n.frame]
        /\ ret' = IF n.done THEN n.ret ELSE ret
        /\ cfg' = n.cfg
        /\ step' = IF step.has
                   THEN [step EXCEPT !.cfg = CallerConfig(@, n.frame.c)]
                   ELSE step

----------------------------------------------------------------------------
(* Step: Verify, Resend *)

\* The frame of a call on the Step s
VerifyFrame(s, code, remember) ==
    [IdleFrame EXCEPT !.pc = "do", !.api = "Verify", !.op = "verify",
                      !.req = VerifyRequest(s, code, remember),
                      !.hist = [NoHist EXCEPT !.pre = s]]

ResendFrame(s) ==
    [IdleFrame EXCEPT !.pc = "do", !.api = "Resend", !.op = "resend",
                      !.req = ResendRequest(s),
                      !.hist = [NoHist EXCEPT !.pre = s]]

\* func (s *Step) Verify
Verify(code, remember) ==
    /\ CurrentStep.has /\ frame["step"].pc = "idle" /\ ~Crashed
    /\ step' = CurrentStep
    /\ frame' = [frame EXCEPT !["step"] = VerifyFrame(step', code, remember)]
    /\ ret' = NoRet
    /\ UNCHANGED cfg

\* func (s *Step) Resend
Resend ==
    /\ CurrentStep.has /\ frame["step"].pc = "idle" /\ ~Crashed
    /\ step' = CurrentStep
    /\ frame' = [frame EXCEPT !["step"] = ResendFrame(step')]
    /\ ret' = NoRet
    /\ UNCHANGED cfg

\* One client.Do round trip, with outcome r, of the call f on the Step s:
\* requestAPI runs on s.cfg itself (s is a pointer), then Verify or Resend
\* finishes.
StepStep(f, s, r) ==
    LET o == RequestAPI(s.cfg, f.req, f.apiResp, r)
        h == Observe(f.hist, r, o)
        f1 == [f EXCEPT !.log = Append(@, AsSent(f.req, o)), !.hist = h,
                        !.sent = @ + 1, !.req = o.req,
                        !.apiResp = o.apiResp]
    IN  IF o.retry
        THEN [frame |-> f1, done |-> FALSE, ret |-> NoRet,
              step |-> [s EXCEPT !.cfg = o.c]]
        ELSE IF f.op = "verify"
        THEN [frame |-> IdleFrame, done |-> TRUE,
              ret |-> Returned("Verify", VerifyReturn(o).cookies, NoStep,
                               VerifyReturn(o).err, FALSE, f1.log, r, h),
              step |-> VerifyStep(s, f.req, o)]
        ELSE [frame |-> IdleFrame, done |-> TRUE,
              ret |-> Returned("Resend", NilCookies, NoStep,
                               ResendReturn(o), FALSE, f1.log, r, h),
              step |-> ResendStep(s, o)]

StepRound(r) ==
    LET n == StepStep(frame["step"], step, r)
    IN  /\ frame' = [frame EXCEPT !["step"] = n.frame]
        /\ ret' = IF n.done THEN n.ret ELSE ret
        /\ step' = n.step
        /\ cfg' = CallerConfig(cfg, n.step.cfg)

Busy(t) == frame[t].pc = "do" /\ frame[t].sent < MaxAttempts /\ ~Crashed

----------------------------------------------------------------------------
(* Stream: PromptCred, Prompt *)

\* What PromptCred keeps between two reads or requests: pc (where it is),
\* cred, code and remember (its variables of these names), step (the *Step
\* LoginCred returned), reader (s.Reader: "nil", a "pipe", or os.Stdin) and
\* eof (the scanner has reached the end of the input), and asks (the number
\* of prompts written to s.Writer and answered by a scan, modulo 2).
PromptOff ==
    [pc |-> "off", cred |-> Cred("", <<>>), code |-> <<>>, remember |-> FALSE,
     step |-> NoStep, reader |-> "nil", eof |-> FALSE, asks |-> 0]

Readers == {"nil", "pipe", "stdin"}

\* the lines the input may hold
Lines == {<<>>, <<"E">>, <<"Y">>, <<"q">>}

\* scanner.Scan() followed by scanner.Err() and scanner.Text(): a line, a
\* read error, or the end of the input, where Scan yields no token and no
\* error and Text is empty; after the end there is nothing else.
Scans(eof) ==
    {[err |-> FALSE, eof |-> TRUE, text |-> <<>>]}
    \cup IF eof THEN {}
         ELSE {[err |-> TRUE, eof |-> FALSE, text |-> <<>>]}
              \cup {[err |-> FALSE, eof |-> FALSE, text |-> l] : l \in Lines}

LowerChar(ch) ==
    CASE ch = "E" -> "e"
      [] ch = "Y" -> "y"
      [] OTHER -> ch

\* strings.ToLower on a line
ToLowerText(t) == [i \in 1..Len(t) |-> LowerChar(t[i])]

\* lines 70-83: the credential type a line stands for, "" when unknown
PromptType(text) ==
    LET t == ToLowerText(text)
    IN  CASE t \in {<<"u","s","e","r","n","a","m","e">>, <<"u","s","e","r">>,
                    <<"u">>, <<>>} -> Username
          [] t \in {<<"e","m","a","i","l">>, <<"e">>} -> Email
          [] t \in {<<"p","h","o","n","e","n","u","m","b","e","r">>,
                    <<"p","h","o","n","e"," ","n","u","m","b","e","r">>,
                    <<"p","n">>} -> PhoneNumber
          [] OTHER -> ""

\* lines 157-163: "yes", "no", or "again"
PromptRemember(text) ==
    LET t == ToLowerText(text)
    IN  CASE t \in {<<"y">>, <<"y","e","s">>} -> "yes"
          [] t \in {<<"n">>, <<"n","o">>, <<>>} -> "no"
          [] OTHER -> "again"

\* the next thing PromptCred asks for (the loops at lines 65 and 87)
PromptNext(cred) ==
    IF cred.Type = "" THEN "type"
    ELSE IF cred.Ident = <<>> THEN "ident"
    ELSE "password"

\* PromptCred returns (the deferred wrapper adds "prompt" to an error)
PromptReturn(cred, cookies, err, r) ==
    [Returned("PromptCred", cookies, NoStep,
              IF IsErr(err) THEN Wrap("prompt", err) ELSE err,
              FALSE, <<>>, r, NoHist)
       EXCEPT !.cred0 = cred]

\* PromptCred on a Stream whose Reader is reader, up to its first read
\* (lines 45-63)
PromptCredEnter(cred, reader) ==
    IF reader = "nil"
    THEN /\ ret' = PromptReturn(cred, NilCookies,
                                Err("stream is missing reader"), FailedDo)
         /\ prompt' = PromptOff
    ELSE IF cred.Type \notin {Username, Email, PhoneNumber, ""}
    THEN /\ ret' = PromptReturn(cred, NilCookies,
                                Err("invalid credential type"), FailedDo)
         /\ prompt' = PromptOff
    ELSE /\ prompt' = [PromptOff EXCEPT !.pc = PromptNext(cred),
                                        !.cred = cred, !.reader = reader]
         /\ ret' = NoRet

\* func (s *Stream) PromptCred
PromptCred(cred) ==
    /\ Quiet /\ ~Crashed
    /\ \E reader \in Readers : PromptCredEnter(cred, reader)
    /\ UNCHANGED <<cfg, step, frame>>

\* func (s *Stream) Prompt, lines 177-183
Prompt(username) ==
    PromptCred(IF username # <<>> THEN Cred(Username, username)
               ELSE Cred("", <<>>))

\* userID < 1
LessThanOne(userID) == userID.neg \/ userID.mag = <<0>>

\* PromptID returns before it has called PromptCred; prompt.reader keeps the
\* Reader of the Stream it was called on.
PromptIDReturn(err, log, r, h, reader) ==
    /\ ret' = [Returned("PromptID", NilCookies, NoStep, Wrap("prompt", err),
                        FALSE, log, r, h)
                 EXCEPT !.cred0 = Cred("", <<>>)]
    /\ prompt' = [PromptOff EXCEPT !.reader = reader]

\* func (s *Stream) PromptID, lines 190-202: with userID < 1 it returns at
\* once if the Stream has a Reader (line 192), and in every other case it
\* goes on to s.getUsername(userID).
PromptID(userID) ==
    /\ Quiet /\ ~Crashed
    /\ \E reader \in Readers :
         IF LessThanOne(userID) /\ reader # "nil"
         THEN /\ PromptIDReturn(Err("stream is missing reader"), <<>>,
                                FailedDo, NoHist, reader)
              /\ UNCHANGED frame
         ELSE /\ frame' = [frame EXCEPT !["cfg"] =
                   [IdleFrame EXCEPT !.pc = "do", !.api = "PromptID",
                                     !.op = "lookup", !.c = cfg, !.gc = cfg,
                                     !.req = LookupRequest(cfg, userID)]]
              /\ prompt' = [PromptOff EXCEPT !.pc = "lookup",
                                             !.reader = reader]
              /\ ret' = NoRet
    /\ UNCHANGED <<cfg, step>>

\* line 125: s.Config.LoginCred(cred, password), up to its first request
PromptLogin(p, password) ==
    LET cred == p.cred
        b == LoginCredBegin(cfg, cred, password)
    IN  IF b.next = "return"
        THEN /\ ret' = PromptReturn(cred, NilCookies, Wrap("login", b.err),
                                    FailedDo)
             /\ prompt' = PromptOff
             /\ UNCHANGED frame
        ELSE /\ frame' = [frame EXCEPT !["cfg"] =
                  [IdleFrame EXCEPT !.pc = "do", !.api = "LoginCred",
                                    !.op = b.next, !.c = cfg, !.gc = cfg,
                                    !.req = b.req, !.cred = b.cred,
                                    !.password = password, !.cred0 = cred]]
             /\ prompt' = [p EXCEPT !.pc = "login"]
             /\ UNCHANGED ret

\* One read of the scanner and what PromptCred does up to the next read or
\* request (lines 65-104, 118-125, 136-167).
PromptScan(sc) ==
    /\ prompt.pc \in {"type", "ident", "password", "code", "remember"}
    /\ prompt.pc = "password" => prompt.reader = "pipe"
    /\ IF sc.err
       THEN /\ ret' = PromptReturn(prompt.cred, NilCookies, Err("read"), FailedDo)
            /\ prompt' = PromptOff
            /\ UNCHANGED frame
       ELSE LET p == [prompt EXCEPT !.eof = sc.eof, !.asks = 1 - @] IN
            CASE prompt.pc = "type" ->
                   LET cred == [p.cred EXCEPT !.Type = PromptType(sc.text)]
                   IN  /\ prompt' = [p EXCEPT !.cred = cred,
                                              !.pc = PromptNext(cred)]
                       /\ UNCHANGED <<ret, frame>>
              [] prompt.pc = "ident" ->
                   LET cred == [p.cred EXCEPT !.Ident = sc.text]
                   IN  /\ prompt' = [p EXCEPT !.cred = cred,
                                              !.pc = PromptNext(cred)]
                       /\ UNCHANGED <<ret, frame>>
              [] prompt.pc = "password" ->
                   PromptLogin(p, sc.text)
              [] prompt.pc = "code" ->
                   IF sc.text # <<>>
                   THEN /\ prompt' = [p EXCEPT !.code = sc.text,
                                               !.pc = "remember"]
                        /\ UNCHANGED <<ret, frame>>
                   ELSE /\ prompt' = [p EXCEPT !.pc = "resend"]
                        /\ frame' = [frame EXCEPT !["step"] = ResendFrame(p.step)]
                        /\ UNCHANGED ret
              [] prompt.pc = "remember" ->
                   IF PromptRemember(sc.text) = "again"
                   THEN /\ prompt' = p
                        /\ UNCHANGED <<ret, frame>>
                   ELSE LET remember == PromptRemember(sc.text) = "yes"
                        IN  /\ prompt' = [p EXCEPT !.remember = remember,
                                                   !.pc = "verify"]
                            /\ frame' = [frame EXCEPT !["step"] =
                                 VerifyFrame(p.step, p.code, remember)]
                            /\ UNCHANGED ret
    /\ UNCHANGED <<cfg, step>>

\* lines 109-115: with os.Stdin as the reader the password comes from
\* terminal.ReadPassword, which may fail.
PromptReadPassword ==
    /\ prompt.pc = "password" /\ prompt.reader = "stdin"
    /\ \/ /\ ret' = PromptReturn(prompt.cred, NilCookies, Err("read"), FailedDo)
          /\ prompt' = PromptOff
          /\ UNCHANGED frame
       \/ \E pw \in Passwords : PromptLogin(prompt, pw)
    /\ UNCHANGED <<cfg, step, jar, legacy>>

\* lines 144-148: an error of step.Resend() ends PromptCred, otherwise the
\* code is asked for again.
MutAfterResendIgnoresError(err) == "code"

AfterResend(err) == IF IsErr(err) THEN "return" ELSE "code"

\* One client.Do round trip, with outcome r, of the LoginCred, Resend or
\* Verify that PromptCred has called, and what PromptCred does with what
\* the call returns (lines 125-130, 144-148, 167-172).
PromptRound(r) ==
    CASE prompt.pc = "login" ->
           LET n == ConfigStep(frame["cfg"], cfg, r) IN
           /\ frame' = [frame EXCEPT !["cfg"] = n.frame]
           /\ cfg' = n.cfg
           /\ IF ~n.done THEN UNCHANGED <<ret, prompt>>
              ELSE IF n.ret.panic
              THEN /\ ret' = [n.ret EXCEPT !.api = "PromptCred"]
                   /\ prompt' = PromptOff
              ELSE IF IsErr(n.ret.err)
              THEN /\ ret' = PromptReturn(prompt.cred, NilCookies, n.ret.err, r)
                   /\ prompt' = PromptOff
              ELSE IF n.ret.step.has
              THEN /\ prompt' = [prompt EXCEPT !.pc = "code",
                                               !.step = n.ret.step]
                   /\ UNCHANGED ret
              ELSE /\ ret' = PromptReturn(prompt.cred, n.ret.cookies, NoErr, r)
                   /\ prompt' = PromptOff
      [] prompt.pc = "lookup" ->
           \* PromptID, lines 202-207: getUsername, then PromptCred
           LET f == frame["cfg"]
               o == RequestAPI(f.gc, f.req, f.apiResp, r)
               h == Observe(f.hist, r, o)
               f1 == [f EXCEPT !.log = Append(@, AsSent(f.req, o)), !.hist = h,
                               !.sent = @ + 1, !.req = o.req,
                               !.apiResp = o.apiResp, !.gc = o.c]
           IN
           /\ UNCHANGED cfg
           /\ IF o.retry
              THEN /\ frame' = [frame EXCEPT !["cfg"] = f1]
                   /\ UNCHANGED <<ret, prompt>>
              ELSE /\ frame' = [frame EXCEPT !["cfg"] = IdleFrame]
                   /\ IF IsErr(o.err)
                      THEN PromptIDReturn(Wrap("user from ID", o.err), f1.log,
                                          r, h, prompt.reader)
                      ELSE PromptCredEnter(Cred(Username, o.apiResp.Username),
                                           prompt.reader)
      [] prompt.pc = "resend" ->
           LET n == StepStep(frame["step"], prompt.step, r) IN
           /\ frame' = [frame EXCEPT !["step"] = n.frame]
           /\ cfg' = CallerConfig(cfg, n.step.cfg)
           /\ IF ~n.done
              THEN /\ prompt' = [prompt EXCEPT !.step = n.step]
                   /\ UNCHANGED ret
              ELSE IF AfterResend(n.ret.err) = "return"
              THEN /\ ret' = PromptReturn(prompt.cred, NilCookies, n.ret.err, r)
                   /\ prompt' = PromptOff
              ELSE /\ prompt' = [prompt EXCEPT !.pc = "code", !.step = n.step]
                   /\ ret' = n.ret
      [] prompt.pc = "verify" ->
           LET n == StepStep(frame["step"], prompt.step, r) IN
           /\ frame' = [frame EXCEPT !["step"] = n.frame]
           /\ cfg' = CallerConfig(cfg, n.step.cfg)
           /\ IF ~n.done
              THEN /\ prompt' = [prompt EXCEPT !.step = n.step]
                   /\ UNCHANGED ret
              ELSE /\ ret' = IF IsErr(n.ret.err)
                             THEN PromptReturn(prompt.cred, NilCookies,
                                               n.ret.err, r)
                             ELSE PromptReturn(prompt.cred, n.ret.cookies,
                                               NoErr, r)
                   /\ prompt' = PromptOff

PromptThread == IF prompt.pc \in {"login", "lookup"} THEN "cfg" ELSE "step"

----------------------------------------------------------------------------
(* The cookie codec: WriteCookies and ReadCookies.  A text is the sequence *)
(* of its CRLF-terminated lines, a line the sequence of its characters; the *)
(* empty line <<>> is the blank line that terminates a MIME header.        *)

\* The cookies handed to WriteCookies: Name and Value only, every attribute
\* zero.  The last two are not valid cookies (empty name, ";" in the value).
CookieJar ==
    {[Name |-> <<"a">>, Value |-> <<"v">>],
     [Name |-> <<"b">>, Value |-> <<"x", " ", "y">>],
     [Name |-> <<"a">>, Value |-> <<>>],
     [Name |-> <<>>, Value |-> <<"v">>],
     [Name |-> <<"b">>, Value |-> <<"v", ";">>]}

RECURSIVE SeqsUpTo(_, _)
SeqsUpTo(S, n) ==
    IF n = 0 THEN {<<>>}
    ELSE LET shorter == SeqsUpTo(S, n - 1)
         IN  shorter \cup {Append(s, x) : s \in shorter, x \in S}

CookieSeqs == SeqsUpTo(CookieJar, MaxCookies)

\* net/http: a cookie name is a non-empty token.
isCookieNameValid(name) ==
    /\ name # <<>>
    /\ \A i \in 1..Len(name) :
           name[i] \notin {" ", "\"", ",", ";", ":", "=", "\\"}

\* net/http: the bytes allowed in a cookie value.
validCookieValueByte(ch) == ch \notin {"\"", ";", "\\"}

\* net/http: Cookie.Valid, for a cookie without attributes.
ValidCookie(c) ==
    /\ isCookieNameValid(c.Name)
    /\ \A i \in 1..Len(c.Value) : validCookieValueByte(c.Value[i])

\* net/http: the invalid bytes are dropped, and a value with a space or a
\* comma is written in double quotes.
sanitizeCookieValue(v) ==
    LET kept == SelectSeq(v, validCookieValueByte)
    IN  IF \E i \in 1..Len(kept) : kept[i] \in {" ", ","}
        THEN <<"\"">> \o kept \o <<"\"">>
        ELSE kept

\* cookie.String(): "" for an invalid name, else name=value (the attributes
\* are zero and add nothing).
CookieString(c) ==
    IF ~isCookieNameValid(c.Name) THEN <<>>
    ELSE c.Name \o <<"=">> \o sanitizeCookieValue(c.Value)

RECURSIVE TrimLeft(_)
TrimLeft(s) ==
    IF s # <<>> /\ Head(s) = " " THEN TrimLeft(Tail(s)) ELSE s

RECURSIVE TrimRight(_)
TrimRight(s) ==
    IF s # <<>> /\ s[Len(s)] = " " THEN TrimRight(SubSeq(s, 1, Len(s) - 1))
    ELSE s

\* textproto.TrimString
TrimString(s) == TrimRight(TrimLeft(s))

\* strings.IndexByte, counted from 1; 0 when ch does not occur
IndexByte(s, ch) ==
    IF \E i \in 1..Len(s) : s[i] = ch
    THEN CHOOSE i \in 1..Len(s) : s[i] = ch /\ \A j \in 1..(i - 1) : s[j] # ch
    ELSE 0

SetCookieKey == <<"S", "e", "t", "-", "C", "o", "o", "k", "i", "e">>

\* h.Add("Set-Cookie", v) for each v, then h.Write(w): one line
\* "Set-Cookie: v" per value, in order, and nothing after the last line.
HeaderWrite(values) ==
    [i \in 1..Len(values) |->
        SetCookieKey \o <<":", " ">> \o TrimString(values[i])]

\* WriteCookies(w, cookies) on a writer that takes every byte: the text on w.
WriteCookies(cookies) ==
    HeaderWrite([i \in 1..Len(cookies) |-> CookieString(cookies[i])])

EOF == Err("EOF")

\* textproto.Reader.ReadMIMEHeader: the values of the Set-Cookie lines read
\* so far, with a nil error at the blank line, io.EOF when the text ends
\* without one, and a protocol error at a line without a colon.
RECURSIVE ReadMIMEHeader(_)
ReadMIMEHeader(text) ==
    IF text = <<>> THEN [h |-> <<>>, err |-> EOF]
    ELSE LET kv == Head(text)
             i  == IndexByte(kv, ":")
         IN  IF kv = <<>> THEN [h |-> <<>>, err |-> NoErr]
             ELSE IF i = 0
             THEN [h |-> <<>>, err |-> Err("malformed MIME header line")]
             ELSE LET rest == ReadMIMEHeader(Tail(text))
                      v    == TrimString(SubSeq(kv, i + 1, Len(kv)))
                  IN  [h   |-> IF SubSeq(kv, 1, i - 1) = SetCookieKey
                               THEN <<v>> \o rest.h ELSE rest.h,
                       err |-> rest.err]

\* net/http: parseCookieValue(raw, true) strips one pair of double quotes.
parseCookieValue(raw) ==
    LET v == IF Len(raw) > 1 /\ raw[1] = "\"" /\ raw[Len(raw)] = "\""
             THEN SubSeq(raw, 2, Len(raw) - 1) ELSE raw
    IN  [val |-> v, ok |-> \A i \in 1..Len(v) : validCookieValueByte(v[i])]

\* net/http: readSetCookies, i.e. resp.Cookies(): one cookie per Set-Cookie
\* value whose first part is name=value with a valid name and value; the
\* other values are skipped.
RECURSIVE readSetCookies(_)
readSetCookies(h) ==
    IF h = <<>> THEN <<>>
    ELSE LET line  == TrimString(Head(h))
             semi  == IndexByte(line, ";")
             part  == TrimString(IF semi = 0 THEN line
                                 ELSE SubSeq(line, 1, semi - 1))
             j     == IndexByte(part, "=")
             name  == SubSeq(part, 1, j - 1)
             value == parseCookieValue(SubSeq(part, j + 1, Len(part)))
             rest  == readSetCookies(Tail(h))
         IN  IF j = 0 \/ ~isCookieNameValid(name) \/ ~value.ok THEN rest
             ELSE <<[Name |-> name, Value |-> value.val]>> \o rest

\* ReadCookies of src/unnamed/part_002: any error of ReadMIMEHeader ends the
\* call with no cookies, and io.EOF is turned into a nil error.
ReadCookiesStrict(text) ==
    LET m == ReadMIMEHeader(text)
    IN  IF IsErr(m.err)
        THEN [cookies |-> <<>>, err |-> IF m.err = EOF THEN NoErr ELSE m.err]
        ELSE [cookies |-> readSetCookies(m.h), err |-> NoErr]

\* ReadCookies of src/cookies.go: io.EOF is not an error, and the cookies of
\* the lines read before it are returned.
ReadCookies(text) ==
    LET m == ReadMIMEHeader(text)
    IN  IF IsErr(m.err) /\ m.err # EOF
        THEN [cookies |-> <<>>, err |-> Wrap("read cookies", m.err)]
        ELSE [cookies |-> readSetCookies(m.h), err |-> NoErr]

\* Texts that WriteCookies did not write: the empty text, a header that ends
\* with a blank line, and a line without a colon.
ForeignTexts ==
    {<<>>,
     <<SetCookieKey \o <<":", " ", "a", "=", "v">>, <<>>>>,
     <<<<"a", "=", "v">>>>}

\* jar.cookies: the list last handed to WriteCookies; jar.text: the text it
\* wrote; jar.read: a ReadCookies call has returned (out, err), reading the
\* text jar.from with the implementation jar.impl.
NoJar ==
    [cookies |-> <<>>, text |-> <<>>, wrote |-> FALSE, werr |-> NoErr,
     read |-> FALSE, impl |-> "none", from |-> <<>>, out |-> <<>>,
     err |-> NoErr]

\* WriteCookies(w, cookies); a failing writer keeps only some of the lines
\* (nothing is written, and nothing can fail, for an empty list).
WriteCookiesCall ==
    /\ \E cookies \in CookieSeqs :
           LET text == WriteCookies(cookies)
           IN  \/ jar' = [NoJar EXCEPT !.cookies = cookies, !.text = text,
                                       !.wrote = TRUE]
               \/ \E k \in 0..(Len(text) - 1) :
                      jar' = [NoJar EXCEPT !.cookies = cookies,
                                           !.text = SubSeq(text, 1, k),
                                           !.werr = Wrap("write cookies",
                                                         Err("write"))]
    /\ UNCHANGED <<cfg, step, frame, ret, prompt, legacy>>

ReadResult(impl, text, res) ==
    [jar EXCEPT !.read = TRUE, !.impl = impl, !.from = text,
                !.out = res.cookies, !.err = res.err]

\* ReadCookies(r) of src/cookies.go, on the text written or on a foreign one
ReadCookiesCall ==
    /\ \E text \in {jar.text} \cup ForeignTexts :
           jar' = ReadResult("cookies.go", text, ReadCookies(text))
    /\ UNCHANGED <<cfg, step, frame, ret, prompt, legacy>>

\* ReadCookies(r) of src/unnamed/part_002
ReadCookiesStrictCall ==
    /\ \E text \in {jar.text} \cup ForeignTexts :
           jar' = ReadResult("part_002", text, ReadCookiesStrict(text))
    /\ UNCHANGED <<cfg, step, frame, ret, prompt, legacy>>

----------------------------------------------------------------------------
(* The legacy implementations: Client (src/cookies.go, second file), and   *)
(* Config and Step without a token (src/rbxauth.go, part_004)              *)

defaultHost == "www.roblox.com"
LegacyHosts == {defaultHost, "sitetest.roblox.com"}
CookieNames == {".ROBLOSECURITY", "GuestData"}

\* the statuses a legacy call may see
LegacyStatuses == {200, 300, 403}

\* What client.Do gives a legacy call: a transport failure, or a response
\* with its status, the cookies it sets and the ones it expires, and its
\* body: decodable or not (ok), with d.IsValid, with an "errors" key.
LegacyFailedDo ==
    [fail |-> TRUE, StatusCode |-> 0, set |-> {}, expire |-> {},
     ok |-> FALSE, IsValid |-> FALSE, errors |-> <<>>]

LegacyResponses ==
    {LegacyFailedDo}
    \cup {r \in [fail : {FALSE}, StatusCode : LegacyStatuses,
                 set : {{}, {".ROBLOSECURITY"}},
                 expire : {{}, {".ROBLOSECURITY"}},
                 ok : BOOLEAN, IsValid : BOOLEAN,
                 errors : {<<>>, <<1>>}] :
            /\ r.set \cap r.expire = {}
            /\ r.set # {} => r.StatusCode = 200
            /\ ~r.ok => ~r.IsValid /\ r.errors = <<>>
            /\ r.IsValid => r.errors = <<>>}

\* the answers to a Client (the "d" object), to a legacy Config or Step
\* call (an "errors" key, cookies that matter only when set), and to the
\* lookup of a username (no cookies)
ClientResponses == {r \in LegacyResponses : r.errors = <<>>}
ConfigResponses == {r \in LegacyResponses : r.expire = {} /\ ~r.IsValid}
LookupResponses == {r \in ConfigResponses : r.set = {}}

ErrLoggedIn == Err("ErrLoggedIn")
ErrLoginFailed == Err("ErrLoginFailed")

\* ErrStatus(resp.StatusCode), StatusError(resp.StatusCode)
StatusError(code) == [Err("status") EXCEPT !.status = code]

\* resp.StatusCode < 200 && resp.StatusCode >= 300
LegacyStatusCheck(code) == code < 200 /\ code >= 300

\* func assertStatus(resp, err): the error it returns
assertStatus(r) ==
    IF r.fail THEN Err("do")
    ELSE IF LegacyStatusCheck(r.StatusCode) THEN StatusError(r.StatusCode)
    ELSE NoErr

\* The cookie jar of the client: a set of cookies, each stored for a host.
\* client.Jar.Cookies(u): the names of the cookies stored for the host of u
JarCookies(cjar, host) == {c.name : c \in {d \in cjar : d.host = host}}

\* client.Do stores the cookies of a response in the jar (if there is one)
\* and drops the ones the response expires.
JarAfter(cjar, nilJar, host, r) ==
    IF nilJar \/ r.fail THEN cjar
    ELSE (cjar \ {[host |-> host, name |-> n] : n \in r.expire})
         \cup {[host |-> host, name |-> n] : n \in r.set}

\* cookies.go lines 112-116: the jar holds a .ROBLOSECURITY cookie for the
\* login URL
MutLoggedInAnyHost(cjar, host) ==
    \E c \in cjar : c.name = ".ROBLOSECURITY"

LoggedIn(cjar, host) == ".ROBLOSECURITY" \in JarCookies(cjar, host)

\* if host == "" { host = defaultHost }
HostOrDefault(host) == IF host = "" THEN defaultHost ELSE host

\* legacy.jar, legacy.nilJar: client.Jar (nilJar: the field is nil);
\* legacy.op, legacy.host: the legacy call that returned last and the host
\* it addressed; legacy.pre: the jar as that call found it; legacy.sent:
\* the requests it sent; legacy.got: the responses it received;
\* legacy.out, legacy.err: the cookies and the error it returned.
NoLegacy ==
    [jar |-> {}, nilJar |-> TRUE, op |-> "", host |-> "", pre |-> {},
     sent |-> <<>>, got |-> <<>>, out |-> {}, err |-> NoErr]

LegacyJars == SUBSET [host : LegacyHosts, name : CookieNames]

\* The caller builds a Client around a jar of its own (Client embeds
\* http.Client, whose Jar field is exported), or around none.
NewClient ==
    /\ \/ \E cjar \in LegacyJars :
              legacy' = [NoLegacy EXCEPT !.jar = cjar, !.nilJar = FALSE]
       \/ legacy' = NoLegacy
    /\ UNCHANGED <<cfg, step, frame, ret, prompt, jar>>

\* what legacy.got keeps of a response: its status, whether its body could
\* be decoded, and whether the body has an "errors" key
Seen(r) ==
    [fail |-> r.fail, StatusCode |-> r.StatusCode, ok |-> r.ok,
     errors |-> r.errors # <<>>]

LegacyReturn(op, host, sent, got, out, err) ==
    [legacy EXCEPT !.op = op, !.host = host, !.pre = legacy.jar,
                   !.sent = sent,
                   !.got = [i \in 1..Len(got) |-> Seen(got[i])],
                   !.out = out, !.err = err]

\* func (client *Client) Login, cookies.go lines 96-164
ClientLogin(host0) ==
    LET host == HostOrDefault(host0)
        req == [method |-> "POST", host |-> host, path |-> "loginPath"]
    IN  IF LoggedIn(legacy.jar, host)
        THEN legacy' = [LegacyReturn("Client.Login", host, <<>>, <<>>, {},
                                     ErrLoggedIn)
                          EXCEPT !.nilJar = FALSE]
        ELSE \E r \in ClientResponses :
               legacy' =
                 [LegacyReturn("Client.Login", host, <<req>>, <<r>>, {},
                    IF IsErr(assertStatus(r)) THEN assertStatus(r)
                    ELSE IF ~r.ok THEN Err("decode")
                    ELSE IF ~r.IsValid THEN ErrLoginFailed
                    ELSE NoErr)
                  EXCEPT !.nilJar = FALSE,
                         !.jar = JarAfter(legacy.jar, FALSE, host, r)]

\* func (client *Client) Logout, cookies.go lines 171-192
ClientLogout(host0) ==
    LET host == HostOrDefault(host0)
        req == [method |-> "POST", host |-> host, path |-> "logoutPath"]
    IN  \E r \in ClientResponses :
            legacy' =
              [LegacyReturn("Client.Logout", host, <<req>>, <<r>>, {},
                            assertStatus(r))
               EXCEPT !.jar = JarAfter(legacy.jar, legacy.nilJar, host, r)]

\* errorResponse.errors is an unexported field: the decoder never sets it.
LegacyErrors(r) == <<>>

\* What every legacy call of Config and Step does with its response
\* (rbxauth.go lines 90-120): the error it returns.
LegacyCheck(r) ==
    IF r.fail THEN Err("do")
    ELSE IF ~r.ok THEN Err("decode")
    ELSE IF Len(LegacyErrors(r)) > 0 THEN ApiErr(LegacyErrors(r))
    ELSE IF LegacyStatusCheck(r.StatusCode) THEN StatusError(r.StatusCode)
    ELSE NoErr

\* resp.Cookies() of a call that returns cookies
LegacyOut(r) == IF IsErr(LegacyCheck(r)) THEN {} ELSE r.set

LegacyRequest(host, path) ==
    [method |-> IF path = "usersPath" THEN "GET" ELSE "POST",
     host |-> host, path |-> path]

\* One legacy call with one round trip; it uses a client of its own
\* (&http.Client{}), so the jar stays as it is.
LegacyCall(op, path, cookies) ==
    \E host0 \in {""}, r \in ConfigResponses :
        legacy' = LegacyReturn(op, HostOrDefault(host0),
                    <<LegacyRequest(HostOrDefault(host0), path)>>, <<r>>,
                    IF cookies THEN LegacyOut(r) ELSE {}, LegacyCheck(r))

\* func (cfg *Config) LoginCred, rbxauth.go lines 63-138 (part_004 215-293)
LegacyLoginCred ==
    /\ LegacyCall("LoginCred", "loginPath", TRUE)
    /\ UNCHANGED <<cfg, step, frame, ret, prompt, jar>>

\* func (cfg *Config) LoginID, rbxauth.go lines 179-185, with getUsername,
\* lines 145-176
LegacyLoginID ==
    /\ \E host0 \in {""}, u \in LookupResponses :
         LET host == HostOrDefault(host0)
             get  == LegacyRequest(host, "usersPath")
         IN  IF IsErr(LegacyCheck(u))
             THEN legacy' = LegacyReturn("LoginID", host, <<get>>, <<u>>,
                                         {}, LegacyCheck(u))
             ELSE \E r \in ConfigResponses :
                    legacy' = LegacyReturn("LoginID", host,
                                <<get, LegacyRequest(host, "loginPath")>>,
                                <<u, r>>, LegacyOut(r), LegacyCheck(r))
    /\ UNCHANGED <<cfg, step, frame, ret, prompt, jar>>

\* func (cfg *Config) Logout, rbxauth.go lines 189-226
LegacyLogout ==
    /\ LegacyCall("Logout", "logoutPath", FALSE)
    /\ UNCHANGED <<cfg, step, frame, ret, prompt, jar>>

\* func (s *Step) Verify, rbxauth.go lines 286-326
LegacyVerify ==
    /\ LegacyCall("Verify", "verifyPath", TRUE)
    /\ UNCHANGED <<cfg, step, frame, ret, prompt, jar>>

\* func (s *Step) Resend, rbxauth.go lines 329-365
LegacyResend ==
    /\ LegacyCall("Resend", "resendPath", FALSE)
    /\ UNCHANGED <<cfg, step, frame, ret, prompt, jar>>

----------------------------------------------------------------------------
(* Spec: the calls on a Config, one at a time, against endpoints that may   *)
(* answer anything                                                         *)

Init ==
    /\ cfg \in Configs
    /\ step = NoStep
    /\ frame = [t \in Threads |-> IdleFrame]
    /\ ret = NoRet
    /\ prompt = PromptOff
    /\ jar = NoJar
    /\ legacy = NoLegacy

CallLoginCred ==
    /\ Quiet /\ \E cred \in Creds, pw \in Passwords : LoginCred(cred, pw)
    /\ UNCHANGED <<prompt, jar, legacy>>

CallLoginID ==
    /\ Quiet /\ \E id \in UserIDs, pw \in Passwords : LoginID(id, pw)
    /\ UNCHANGED <<prompt, jar, legacy>>

CallLogout ==
    /\ Quiet /\ \E cookies \in CookieLists : Logout(cookies)
    /\ UNCHANGED <<prompt, jar, legacy>>

ConfigDo ==
    /\ prompt.pc = "off" /\ Busy("cfg") /\ \E r \in Responses(frame["cfg"].op) : ConfigRound(r)
    /\ UNCHANGED <<prompt, jar, legacy>>

Next ==
    \/ CallLoginCred
    \/ CallLoginID
    \/ CallLogout
    \/ ConfigDo

Spec == Init /\ [][Next]_vars

----------------------------------------------------------------------------
(* SpecStep: a login against endpoints that answer in a few typical ways,   *)
(* then Verify and Resend on its Step, one call at a time, against         *)
(* endpoints that may answer anything                                      *)

\* A few typical answers: no answer at all, a page that is not JSON, a plain
\* success, a success that asks for two-step verification, a rejection; a
\* 200 sets a cookie, and either status may set a token.
TypicalHeads ==
    { [StatusCode |-> 200, token |-> "", cookies |-> <<"c1">>],
      [StatusCode |-> 200, token |-> "t1", cookies |-> <<"c1">>],
      [StatusCode |-> 403, token |-> "", cookies |-> <<>>],
      [StatusCode |-> 403, token |-> "t2", cookies |-> <<>>] }

TypicalBodies(op) ==
    CASE op = "login" ->
           { [NoBody EXCEPT !.user = Present(<<"a">>)],
             [NoBody EXCEPT !.user = Present(<<"a">>),
                            !.tsv = Present([MediaType |-> "Email",
                                             Ticket |-> "T1"])],
             [NoBody EXCEPT !.errors = Present(<<0>>)] }
      [] op = "resend" ->
           { [NoBody EXCEPT !.mediaType = Present("SMS"),
                            !.ticket = Present("T2")],
             [NoBody EXCEPT !.errors = Present(<<0>>)] }
      [] op = "lookup" ->
           { [NoBody EXCEPT !.Username = Present(<<"a">>)],
             [NoBody EXCEPT !.errors = Present(<<0>>)] }
      [] OTHER ->
           { NoBody, [NoBody EXCEPT !.errors = Present(<<0>>)] }

TypicalResponses(op) ==
    {FailedDo}
    \cup {Response([StatusCode |-> 200, token |-> "", cookies |-> <<"c1">>],
                   FALSE, NoBody)}
    \cup {Response(h, TRUE, b) : h \in TypicalHeads, b \in TypicalBodies(op)}

LoginCreds == {Cred(Username, <<"b">>)}

StepLogin ==
    /\ Quiet /\ ~CurrentStep.has
    /\ \E cred \in LoginCreds, pw \in Passwords : LoginCred(cred, pw)
    /\ UNCHANGED <<prompt, jar, legacy>>

TypicalConfigDo ==
    /\ prompt.pc = "off" /\ Busy("cfg")
    /\ \E r \in TypicalResponses(frame["cfg"].op) : ConfigRound(r)
    /\ UNCHANGED <<prompt, jar, legacy>>

CallVerify ==
    /\ Quiet /\ \E code \in Codes, remember \in BOOLEAN : Verify(code, remember)
    /\ UNCHANGED <<prompt, jar, legacy>>

CallResend ==
    /\ Quiet /\ Resend
    /\ UNCHANGED <<prompt, jar, legacy>>

StepDo ==
    /\ prompt.pc = "off" /\ Busy("step") /\ \E r \in Responses(frame["step"].op) : StepRound(r)
    /\ UNCHANGED <<prompt, jar, legacy>>

NextStep ==
    \/ StepLogin
    \/ TypicalConfigDo
    \/ CallVerify
    \/ CallResend
    \/ StepDo

SpecStep == Init /\ [][NextStep]_vars

----------------------------------------------------------------------------
(* SpecConc: calls on a Config and calls on a Step it produced, running at  *)
(* the same time, against endpoints that answer in the typical ways        *)

ConcLoginCred ==
    /\ \E cred \in LoginCreds, pw \in Passwords : LoginCred(cred, pw)
    /\ UNCHANGED <<prompt, jar, legacy>>

ConcLogout ==
    /\ \E cookies \in {<<"c1">>} : Logout(cookies)
    /\ UNCHANGED <<prompt, jar, legacy>>

ConcVerify ==
    /\ \E code \in {<<"1">>} : Verify(code, FALSE)
    /\ UNCHANGED <<prompt, jar, legacy>>

ConcResend ==
    /\ Resend
    /\ UNCHANGED <<prompt, jar, legacy>>

TypicalStepDo ==
    /\ prompt.pc = "off" /\ Busy("step")
    /\ \E r \in TypicalResponses(frame["step"].op) : StepRound(r)
    /\ UNCHANGED <<prompt, jar, legacy>>

NextConc ==
    \/ ConcLoginCred
    \/ ConcLogout
    \/ TypicalConfigDo
    \/ ConcVerify
    \/ ConcResend
    \/ TypicalStepDo

SpecConc == Init /\ [][NextConc]_vars

----------------------------------------------------------------------------
(* SpecPrompt: the interactive login and the calls it is built from, one at *)
(* a time, against endpoints that answer in the typical ways               *)

PromptCreds ==
    {Cred("", <<>>), Cred(Username, <<"b">>), Cred(Email, <<>>),
     Cred("UserID", <<"7">>)}

TryCreds ==
    {Cred(Username, <<"b">>), Cred("UserID", <<"7">>),
     Cred("UserID", <<"7", "x">>)}

CallPromptCred ==
    /\ Quiet
    /\ \E cred \in PromptCreds : PromptCred(cred)
    /\ UNCHANGED <<jar, legacy>>

CallPrompt ==
    /\ Quiet
    /\ \E username \in {<<>>, <<"b">>} : Prompt(username)
    /\ UNCHANGED <<jar, legacy>>

Scan ==
    /\ ~Crashed
    /\ \E sc \in Scans(prompt.eof) : PromptScan(sc)
    /\ UNCHANGED <<jar, legacy>>

CallPromptID ==
    /\ Quiet
    /\ \E userID \in UserIDs : PromptID(userID)
    /\ UNCHANGED <<jar, legacy>>

PromptDo ==
    /\ prompt.pc \in {"login", "lookup", "resend", "verify"}
    /\ Busy(PromptThread)
    /\ \E r \in TypicalResponses(frame[PromptThread].op) : PromptRound(r)
    /\ UNCHANGED <<step, jar, legacy>>

TryLoginCred ==
    /\ Quiet /\ \E cred \in TryCreds, pw \in Passwords : LoginCred(cred, pw)
    /\ UNCHANGED <<prompt, jar, legacy>>

TryLoginID ==
    /\ Quiet /\ \E pw \in Passwords : LoginID(Int64(FALSE, <<7>>), pw)
    /\ UNCHANGED <<prompt, jar, legacy>>

TryVerify ==
    /\ Quiet /\ \E code \in {<<"1">>} : Verify(code, TRUE)
    /\ UNCHANGED <<prompt, jar, legacy>>

NextPrompt ==
    \/ CallPromptCred
    \/ CallPrompt
    \/ CallPromptID
    \/ Scan
    \/ PromptReadPassword
    \/ PromptDo
    \/ TryLoginCred
    \/ TryLoginID
    \/ TryVerify
    \/ TypicalConfigDo
    \/ TypicalStepDo

SpecPrompt == Init /\ [][NextPrompt]_vars

\* PromptCred run to its end. PromptCred is one goroutine that never waits
\* for another: a scan of a finite input comes back (with a line, an error
\* or the end of the input), terminal.ReadPassword comes back, and
\* client.Do comes back (with a response or an error), so each of its steps
\* is taken once it can be.
NextPromptLive ==
    \/ CallPromptCred
    \/ Scan
    \/ PromptReadPassword
    \/ PromptDo

SpecPromptLive ==
    /\ Init
    /\ [][NextPromptLive]_vars
    /\ WF_vars(Scan)
    /\ WF_vars(PromptReadPassword)
    /\ WF_vars(PromptDo)

----------------------------------------------------------------------------
(* SpecCookies: cookie lists written with WriteCookies and read back with   *)
(* ReadCookies                                                             *)

NextCookies ==
    \/ WriteCookiesCall
    \/ ReadCookiesCall
    \/ ReadCookiesStrictCall

SpecCookies == Init /\ [][NextCookies]_vars

\* The legacy implementations: calls on a Client, and the legacy calls of
\* Config and Step, one at a time.
CallClientLogin ==
    /\ \E host \in {""} \cup LegacyHosts : ClientLogin(host)
    /\ UNCHANGED <<cfg, step, frame, ret, prompt, jar>>

CallClientLogout ==
    /\ \E host \in {""} \cup LegacyHosts : ClientLogout(host)
    /\ UNCHANGED <<cfg, step, frame, ret, prompt, jar>>

NextLegacy ==
    \/ NewClient
    \/ CallClientLogin
    \/ CallClientLogout
    \/ LegacyLoginCred
    \/ LegacyLoginID
    \/ LegacyLogout
    \/ LegacyVerify
    \/ LegacyResend

SpecLegacy == Init /\ [][NextLegacy]_vars

----------------------------------------------------------------------------
(* Properties of the calls on a Config (checked under Spec) *)

LoginAPIs == {"LoginCred", "LoginID"}

\* the call that just returned sent requests and got this far without error
Succeeded(apis) ==
    ret.done /\ ret.api \in apis /\ ~ret.panic /\ ~IsErr(ret.err)

Failed(apis) ==
    ret.done /\ ret.api \in apis /\ ~ret.panic /\ IsErr(ret.err)

\* a 2XX response whose body decodes and carries no errors
IsSuccessResponse(r) ==
    /\ ~r.fail /\ r.ok /\ r.StatusCode >= 200 /\ r.StatusCode < 300
    /\ (r.body.errors.has => r.body.errors.val = <<>>)

\* C1 (as claimed): against an endpoint that answers every request with a 403
\* whose first error has code 0, with or without a token header, a call
\* sends the original request and one retry: it never sends a third request.
C1_TokenRetryBound ==
    \A t \in Threads : frame[t].hist.all403 => frame[t].sent <= 2

\* C2 (as claimed): a Login whose first response is the 403 with a code-0
\* error and a fresh token, and whose second response is a 2XX success body
\* without errors, returns the cookies of the second response and no error.
C2_TokenRetrySuccess ==
    /\ ret.done /\ ret.api = "LoginCred" /\ ~ret.panic
    /\ ret.nsent = 2 /\ ret.hist.trig
    /\ IsSuccessResponse(ret.fin) /\ ~ret.fin.body.tsv.has
    => ~IsErr(ret.err) /\ ret.cookies = Cookies(ret.fin)

\* C3 (as claimed): after a Login or Logout during which a response carried
\* a token, the Token of the Config the caller holds is the learned token.
C3_TokenPersistence ==
    /\ ret.done /\ ret.api \in {"LoginCred", "Logout"}
    /\ ret.hist.learned # ""
    => cfg.Token = ret.hist.learned

InvalidUserIDs == {<<"7", "x">>, <<>>, Overflow}

C9_InvalidUserID ==
    /\ frame["cfg"].pc = "do" /\ frame["cfg"].api = "LoginCred" =>
         ~(frame["cfg"].cred0.Type = "UserID"
           /\ frame["cfg"].cred0.Ident \in InvalidUserIDs)
    /\ ret.done /\ ret.api = "LoginCred" /\ ret.nsent = 0 =>
         /\ ret.cred0.Type = "UserID" /\ ret.cred0.Ident \in InvalidUserIDs
         /\ ret.err.kind = "parse user ID" /\ ret.err.ctx = <<"login">>
         /\ ret.cookies.nil /\ ~ret.step.has

\* the out-of-range identifier was rejected
C9_Witness ==
    /\ ret.done /\ ret.api = "LoginCred" /\ ret.cred0 = Cred("UserID", Overflow)
    /\ ret.err.kind = "parse user ID" /\ ret.nsent = 0

----------------------------------------------------------------------------
(* Properties of the calls on a Step (checked under SpecStep) *)

\* C6 (as claimed): a Resend whose response is a 2XX body without errors
\* returns no error and sets the Step's MediaType and ticket to the values
\* of that response; any other Resend returns an error and leaves the
\* Step's MediaType and ticket as they were before the call.
C6_ResendMutatesOnSuccess ==
    ret.done /\ ret.api = "Resend" =>
      IF IsSuccessResponse(ret.fin)
      THEN /\ ~IsErr(ret.err)
           /\ step.MediaType = ret.fin.body.mediaType.val
           /\ step.req.Ticket = ret.fin.body.ticket.val
      ELSE /\ IsErr(ret.err)
           /\ step.MediaType = ret.hist.pre.MediaType
           /\ step.req.Ticket = ret.hist.pre.req.Ticket

\* C7: after a Verify that returned an error the Step's request fields
\* (username, ticket, action type) and MediaType are what they were before
\* the call and the Step stores no code and no remember-device value; every
\* request of a Verify carries the Step's ticket and username and the code
\* and remember-device value of that call only.
C7_FailedVerifyKeepsStep ==
    /\ ret.done /\ ret.api = "Verify" /\ IsErr(ret.err) =>
         /\ step.req = ret.hist.pre.req
         /\ step.MediaType = ret.hist.pre.MediaType
         /\ step.req.Code = <<>> /\ ~step.req.RememberDevice
    /\ frame["step"].pc = "do" /\ frame["step"].api = "Verify" =>
         LET f == frame["step"] IN
         /\ step.req = f.hist.pre.req /\ step.req.Code = <<>>
         /\ f.req.body.Ticket = step.req.Ticket
         /\ f.req.body.Username = step.req.Username
         /\ f.req.body.ActionType = step.req.ActionType
         /\ \A i \in 1..Len(f.log) : f.log[i].body = f.req.body

\* a Verify with a code failed and changed nothing but the Step's token
C7_Witness ==
    /\ ret.done /\ ret.api = "Verify" /\ IsErr(ret.err) /\ ret.nsent = 2
    /\ step.has /\ step.req.Ticket = "T1" /\ step.req.Code = <<>>
    /\ step.cfg.Token # ret.hist.pre.cfg.Token

----------------------------------------------------------------------------
(* Properties of calls running at the same time (checked under SpecConc) *)

\* the last token a response to the call on the Step carried, after a step
LastStepToken ==
    IF frame'["step"].pc = "do"
    THEN frame'["step"].hist.learned
    ELSE ret'.hist.learned

Isolated ==
    /\ frame'["step"] # frame["step"] => cfg' = cfg
    /\ frame'["cfg"] # frame["cfg"] => step' = step /\ cfg' = cfg
    /\ step'.cfg # step.cfg =>
         \/ /\ frame["step"].pc = "idle" /\ frame'["step"].pc = "do"
            /\ ret.done /\ step' = ret.step
         \/ /\ frame["step"].pc = "do"
            /\ LastStepToken # ""
            /\ step'.cfg = [step.cfg EXCEPT !.Token = LastStepToken]

\* C5: in every step of every interleaving, what is done on the Step leaves
\* the originating Config as it was, what is done on the Config leaves the
\* Step as it was, and the Config stored in the Step changes only in its
\* Token, to the token of a response to the Step's own request (or when the
\* caller takes up the Step of a later login).
C5_ConfigIsolation == [][Isolated]_vars

\* both calls are in progress, each after a rejected request, and only the
\* Config of the Step has learned a token
C5_Witness ==
    /\ frame["cfg"].pc = "do" /\ frame["step"].pc = "do"
    /\ frame["cfg"].sent = 1 /\ frame["step"].sent = 1
    /\ cfg.Token = "" /\ frame["cfg"].c.Token = "" /\ step.cfg.Token = "t2"

----------------------------------------------------------------------------
(* Properties of the interactive login (checked under SpecPrompt) *)

\* C10: whenever LoginCred, LoginID, Verify or PromptCred returns an error,
\* the cookie list it returns is nil and the Step it returns is nil.
C10_NoPartialSession ==
    Failed({"LoginCred", "LoginID", "Verify", "PromptCred"}) =>
      ret.cookies = NilCookies /\ ~ret.step.has

\* PromptCred failed in Verify although the last response set a cookie
C10_Witness ==
    /\ Failed({"PromptCred"}) /\ ret.err.ctx = <<"prompt", "verify">>
    /\ ret.fin.cookies = <<"c1">> /\ ret.cookies.nil

----------------------------------------------------------------------------
(* Properties of error and token handling *)

\* the JSON body of r carries a non-empty error list
HasErrors(r) ==
    ~r.fail /\ r.ok /\ r.body.errors.has /\ r.body.errors.val # <<>>

\* C11 (as claimed): a call whose final response carries errors fails,
\* whatever the status, and a call whose final response is a 2XX body with
\* no errors succeeds.
C11_ErrorsDominate ==
    ret.done /\ ~ret.panic /\ ret.nsent > 0 =>
      /\ HasErrors(ret.fin) => IsErr(ret.err)
      /\ IsSuccessResponse(ret.fin) => ~IsErr(ret.err)


\* the call on the Step that is in progress or has just returned
StepCall ==
    IF frame["step"].pc = "do" THEN frame["step"].hist ELSE ret.hist

\* C12: during and after every Verify and Resend the token stored in the
\* Step's Config is the token header of the most recent response of the call
\* that carried one, and the token stored when the call began if no response
\* carried one (responses without the header and failed transports leave it).
C12_LastWriteWins ==
    step.has /\ (frame["step"].pc = "do"
                 \/ (ret.done /\ ret.api \in {"Verify", "Resend"})) =>
      step.cfg.Token = IF StepCall.learned # "" THEN StepCall.learned
                       ELSE StepCall.pre.cfg.Token

\* a stored token was replaced by the token of a later response, and the
\* response after that, which carried none, left it in place
C12_Witness ==
    /\ ret.done /\ ret.api = "Resend" /\ ret.nsent = 2
    /\ ret.hist.pre.cfg.Token = "" /\ ret.hist.learned = "t2"
    /\ ~ret.fin.fail /\ ret.fin.token = "" /\ step.cfg.Token = "t2"


\* the token stored in the Config that the call on thread t sends through
StoredToken(t) ==
    IF t = "step" THEN step.cfg.Token ELSE frame["cfg"].c.Token

\* the request the call on thread t has sent in this step
SentNow(t) ==
    IF frame'[t].pc = "do"
    THEN frame'[t].log[Len(frame'[t].log)]
    ELSE ret'.last

CarriesStored ==
    \A t \in Threads :
      /\ frame[t].pc = "do" /\ frame'[t] # frame[t]
      /\ frame[t].op \in {"login", "logout", "verify", "resend"}
      => SentNow(t).token = StoredToken(t)

\* C13: every request sent to the login, logout, verify or resend endpoint
\* carries as its token header exactly the token stored in its Config at
\* that moment, and carries none exactly when the stored token is empty.
C13_RequestCarriesToken == [][CarriesStored]_vars

\* a Verify that began without a token has sent its second request with the
\* token it learned from the first response
C13_Witness ==
    /\ ret.done /\ ret.api = "Verify" /\ ret.nsent = 2
    /\ ret.hist.pre.cfg.Token = "" /\ ret.last.token = "t2"


\* C14 (as claimed): a call whose request carried a token and was answered
\* with a 403, a code-0 error and a fresh token header does not end there:
\* the request is sent again with the fresh token.
C14_StaleTokenRecovery ==
    ~ /\ ret.done /\ ret.nsent = 1
      /\ ret.last.token # "" /\ Is403Code0(ret.fin)
      /\ ret.fin.token # "" /\ ret.fin.token # ret.last.token

\* C15 (as claimed): the lookup request of a UserID credential carries no
\* token header, whatever the token of the Config is.
C15_LookupSendsNoToken ==
    /\ \A i \in 1..Len(frame["cfg"].log) :
         frame["cfg"].log[i].op = "lookup" => frame["cfg"].log[i].token = ""
    /\ ret.done /\ ret.last.op = "lookup" => ret.last.token = ""


\* C16 (as claimed): when the final response of a login has a status outside
\* 200-299, LoginCred returns an error that has the method StatusCode()
\* yielding that status, and neither cookies nor a Step.
C16_StatusErrorCarriesStatus ==
    /\ ret.done /\ ret.api = "LoginCred" /\ ~ret.panic /\ ret.last.op = "login"
    /\ ~ret.fin.fail /\ (ret.fin.StatusCode < 200 \/ ret.fin.StatusCode >= 300)
    => /\ ImplementsStatusCode(ret.err)
       /\ ret.err.status = ret.fin.StatusCode
       /\ ret.cookies = NilCookies /\ ~ret.step.has


\* C17 (as claimed): a Logout whose final response is a 2XX body without
\* errors returns no error, whatever cookies were passed.
C17_LogoutSucceeds ==
    ret.done /\ ret.api = "Logout" /\ IsSuccessResponse(ret.fin)
    => ~IsErr(ret.err)

\* C18 (as claimed): a login request never carries a credential kind other
\* than Username, Email or PhoneNumber (UserID is resolved to Username).
C18_UnknownKindRejected ==
    frame["cfg"].pc = "do" /\ frame["cfg"].op = "login"
    => frame["cfg"].req.body.ctype \in {Username, Email, PhoneNumber}


----------------------------------------------------------------------------
(* Properties of the cookie codec and of PromptID *)

\* jar.out was read from exactly the text that WriteCookies wrote for a list
\* of valid cookies
ReadBack ==
    /\ jar.wrote /\ jar.read /\ jar.from = jar.text
    /\ \A i \in 1..Len(jar.cookies) : ValidCookie(jar.cookies[i])

\* C19: ReadCookies applied to the text that WriteCookies wrote for a list
\* of valid cookies returns, without error, cookies with the same names and
\* values in the same order.
C19_CookieRoundTrip ==
    ReadBack => ~IsErr(jar.err) /\ jar.out = jar.cookies

\* C20: PromptID on a Stream that has a Reader does not return the error
\* "stream is missing reader" (a user ID less than 1 is prompted for).
C20_PromptIDPromptsForID ==
    ret.done /\ ret.api = "PromptID" /\ prompt.reader # "nil" =>
      ret.err.kind # "stream is missing reader"

----------------------------------------------------------------------------
(* Properties of the automatic retry *)

\* thread t sends, in this step, the retry that the last response triggered
\* (and the request is on record afterwards: the log starts again when a
\* retried getUsername succeeds and LoginCred goes on to its login request)
RetryNow(t) ==
    /\ frame[t].pc = "do" /\ frame[t].sent >= 1 /\ frame'[t] # frame[t]
    /\ frame'[t].pc = "do" => frame'[t].log # <<>>

\* hist.learned of a chain that is about to retry is the token header of the
\* 403 response that triggered the retry: an earlier response with a token
\* would have ended the retries.
RetryCarriesLearned ==
    \A t \in Threads :
        RetryNow(t) => /\ SentNow(t).token # ""
                       /\ SentNow(t).token = frame[t].hist.learned

\* C21: every retried request carries a non-empty token header, equal to the
\* token header of the 403 response that triggered the retry.
C21_RetryCarriesLearnedToken == [][RetryCarriesLearned]_vars

\* the operations whose request has a JSON payload (bytes.NewReader(body))
PayloadOps == {"login", "verify", "resend"}

\* the retry is the first request of the chain again, and its Body reader
\* still has the payload to offer
RetrySameRequest ==
    \A t \in Threads :
        RetryNow(t) =>
          LET first == frame[t].log[1]
              again == SentNow(t)
          IN  /\ again.method = first.method /\ again.url = first.url
              /\ again.headers = first.headers /\ again.body = first.body
              /\ first.op \in PayloadOps => ~again.bodyRead

\* C22: the retried request has the method, endpoint, content headers and
\* body bytes of the original request; the payload of Login, Verify and
\* Resend is sent again in full.
C22_RetrySameRequest == [][RetrySameRequest]_vars

\* C23: a 403 response to a request without token that has an entry with
\* code 0 anywhere in its error list triggers the retry, so no call returns
\* on such a response.
C23_TriggerAnyPosition ==
    /\ ret.done /\ ~ret.fin.fail /\ ret.fin.ok /\ ret.fin.StatusCode = 403
    /\ ret.last.token = ""
    => \A i \in 1..Len(ret.fin.body.errors.val) : ret.fin.body.errors.val[i] # 0

----------------------------------------------------------------------------
(* Properties of the Step's ticket and of its life (checked under SpecStep) *)

\* One step of the ticket's history: a Step is made with the ticket of the
\* login response and the action type "Login"; a call on it starts with the
\* Step's ticket and username; every request sent carries them; only a
\* Resend that returns without error changes the ticket, to the ticket of
\* the response it returned on.
TicketStep ==
    /\ ret'.done /\ ret' # ret /\ ret'.step.has =>
         /\ ret'.step.req.Ticket = ret'.fin.body.tsv.val.Ticket
         /\ ret'.step.req.ActionType = "Login"
    /\ frame["step"].pc = "idle" /\ frame'["step"].pc = "do" =>
         LET b == frame'["step"].req.body
         IN  /\ b.Ticket = CurrentStep.req.Ticket
             /\ b.Username = CurrentStep.req.Username
             /\ b.ActionType = "Login"
    /\ frame["step"].pc = "do" /\ frame'["step"] # frame["step"] =>
         /\ SentNow("step").body.Ticket = step.req.Ticket
         /\ SentNow("step").body.Username = step.req.Username
         /\ SentNow("step").body.ActionType = "Login"
         /\ step'.req.Username = step.req.Username
         /\ step'.req.ActionType = step.req.ActionType
         /\ step'.req.Ticket =
              IF ret'.done /\ ret'.api = "Resend" /\ ~IsErr(ret'.err)
              THEN ret'.fin.body.ticket.val
              ELSE step.req.Ticket

\* C24: the ticket of every verify or resend request is the ticket returned
\* by the most recent successful Resend, or the ticket of the login response
\* if there was none; username and action type "Login" never change.
C24_TicketHistory == [][TicketStep]_vars

\* the call that returned last is a Verify that returned a Session
Verified == ret.done /\ ret.api = "Verify" /\ ~ret.panic /\ ~IsErr(ret.err)

\* C25: once a Verify on a Step has returned a Session, no Verify or Resend
\* on that Step sends a request or changes the Step.
C25_VerifyIsTerminal ==
    [][Verified => frame'["step"].pc = "idle" /\ step' = step]_vars

\* One step seen from the transport: a chain goes on to another request only
\* while every client.Do so far has returned a response, and a call that
\* returns on a failed client.Do returns the transport error, no cookies,
\* and leaves the token of the Step and the caller's Config as they were
\* before that attempt.
TransportFailureStep ==
    /\ \A t \in Threads :
         frame'[t].pc = "do" => ~frame'[t].hist.failed
    /\ ret'.done /\ ret' # ret /\ ret'.nsent > 0 /\ ret'.fin.fail =>
         /\ IsErr(ret'.err) /\ ret'.err.kind = "transport"
         /\ ret'.cookies = NilCookies /\ ~ret'.step.has
         /\ step'.cfg.Token = step.cfg.Token
         /\ cfg' = cfg

\* C26: a failed client.Do is never retried: the operation returns its error
\* after that attempt, sends nothing more and leaves the stored token
\* unchanged, also when the failed attempt was the automatic retry.
C26_TransportNeverRetried == [][TransportFailureStep]_vars

\* a Resend learned a token from the 403 response, its retry failed in the
\* transport, and the Step keeps the learned token
C26_Witness ==
    /\ ret.done /\ ret.api = "Resend" /\ ret.nsent = 2 /\ ret.fin.fail
    /\ ret.err.kind = "transport"
    /\ ret.hist.pre.cfg.Token = "" /\ step.cfg.Token = "t1"
    /\ ret.last.token = "t1"

----------------------------------------------------------------------------
(* Properties of LoginCred and LoginID (checked under Spec) *)

\* C27: when the lookup of a user ID fails, LoginCred or LoginID returns the
\* lookup's error (no cookies, no Step) and no login request is prepared or
\* sent in that call.
C27_FailedLookupAborts ==
    /\ frame["cfg"].pc = "do" /\ frame["cfg"].op = "login" =>
         ~frame["cfg"].hist.lookupFailed
    /\ ret.done /\ ret.api \in LoginAPIs /\ ret.last.op = "login" =>
         ~ret.hist.lookupFailed
    /\ ret.done /\ ret.api \in LoginAPIs /\ ret.last.op = "lookup" =>
         /\ IsErr(ret.err) /\ ret.cookies = NilCookies /\ ~ret.step.has
         /\ \E i \in 1..Len(ret.err.ctx) : ret.err.ctx[i] = "user from ID"
         /\ ret.fin.fail => ret.err.kind = "transport"
         /\ ~ret.fin.fail /\ (ret.fin.StatusCode < 200 \/ ret.fin.StatusCode >= 300)
              => ret.err.status = ret.fin.StatusCode

\* LoginID stopped at a lookup answered 500 with a body without errors
C27_Witness ==
    /\ ret.done /\ ret.api = "LoginID" /\ ret.last.op = "lookup"
    /\ ret.nsent = 1 /\ ~ret.fin.fail /\ ret.fin.ok
    /\ ret.fin.StatusCode = 500 /\ ~ret.fin.body.errors.has
    /\ ret.err.status = 500 /\ ret.err.kind = "nil"

\* C28: the Config of a Step has the token learned during the login exchange
\* (the caller's token if none was learned), and a Verify or Resend that
\* starts on a Step with a token sends one request, carrying that token,
\* with no retry.
C28_StepInheritsToken ==
    /\ ret.done /\ ret.step.has =>
         ret.step.cfg.Token = IF ret.hist.learned # "" THEN ret.hist.learned
                              ELSE cfg.Token
    /\ frame["step"].pc = "do" /\ frame["step"].hist.pre.cfg.Token # "" =>
         frame["step"].sent = 0
    /\ ret.done /\ ret.api \in {"Verify", "Resend"}
         /\ ret.hist.pre.cfg.Token # "" =>
         ret.nsent = 1 /\ ret.last.token = ret.hist.pre.cfg.Token

\* the first Verify on a Step whose login learned t2 on a Config without
\* token: one request, carrying t2
C28_Witness ==
    /\ ret.done /\ ret.api = "Verify" /\ ret.nsent = 1
    /\ cfg.Token = "" /\ ret.hist.pre.cfg.Token = "t2"
    /\ ret.last.token = "t2"

\* C29: LoginCred returns normally (a result or an error) for every login
\* response that decodes and carries no API errors, also for one with
\* twoStepVerificationData and no user object.
C29_LoginNeverCrashes ==
    ret.done /\ ret.api \in LoginAPIs /\ ~ret.fin.fail /\ ret.fin.ok =>
      ~ret.panic

----------------------------------------------------------------------------
(* Properties of the two-step loop of PromptCred (checked under SpecPrompt) *)

\* One step of the two-step loop.  A line read at the code prompt ends the
\* prompt (read error), starts one Resend and no Verify (empty), or is kept
\* as the code (not empty).  A Resend starts only from the code prompt; the
\* Verify starts only after the remember prompt, with the non-empty code.
\* A Resend that returns an error ends the prompt with that error, one that
\* returns nil leads back to the code prompt.  After the Verify call the
\* prompt ends.
PromptOrderStep ==
    LET f == frame'["step"] IN
    /\ prompt.pc = "code" =>
         \/ /\ prompt'.pc = "off" /\ ret'.done /\ IsErr(ret'.err)
            /\ f.pc = "idle"
         \/ /\ prompt'.pc = "resend" /\ prompt'.code = <<>>
            /\ f.pc = "do" /\ f.api = "Resend" /\ f.sent = 0
         \/ /\ prompt'.pc = "remember" /\ prompt'.code # <<>>
            /\ f.pc = "idle"
    /\ prompt.pc # "off" /\ frame["step"].pc = "idle" /\ f.pc = "do" =>
         \/ f.api = "Resend" /\ prompt.pc = "code"
         \/ /\ f.api = "Verify" /\ prompt.pc = "remember"
            /\ prompt.code # <<>> /\ f.req.body.Code = prompt.code
            /\ prompt'.pc = "verify"
    /\ prompt.pc = "resend" /\ f.pc = "do" =>
         prompt'.pc = "resend" /\ f.api = "Resend"
    /\ prompt.pc = "resend" /\ f.pc = "idle" =>
         \/ prompt'.pc = "code" /\ ret'.api = "Resend" /\ ~IsErr(ret'.err)
         \/ prompt'.pc = "off" /\ ret'.api = "PromptCred" /\ IsErr(ret'.err)
    /\ prompt.pc = "verify" =>
         \/ prompt'.pc = "verify" /\ f.api = "Verify"
         \/ prompt'.pc = "off" /\ ret'.api = "PromptCred" /\ f.pc = "idle"

\* C30: in PromptCred's two-step loop an empty code line causes one Resend
\* and no Verify, Verify is called once, with a non-empty code and after
\* every Resend, and a failing Resend ends the prompt without a Verify.
C30_PromptOrdering == [][PromptOrderStep]_vars

\* the Verify of a prompt, with the code entered after a Resend that
\* returned the ticket T2
C30_Witness ==
    /\ prompt.pc = "verify" /\ prompt.code # <<>>
    /\ frame["step"].pc = "do" /\ frame["step"].api = "Verify"
    /\ prompt.step.req.Ticket = "T2"
    /\ frame["step"].req.body.Ticket = "T2"

\* C31: the prompt terminates on finite input: once the scanner has reached
\* the end of the input, PromptCred eventually returns (with cookies or with
\* an error) instead of asking again for ever.
C31_PromptTerminates == [](prompt.eof => <>(prompt.pc = "off"))

\* the jar that the last legacy call found held a .ROBLOSECURITY cookie for
\* the host the call addressed
HeldSession ==
    \E c \in legacy.pre : c.host = legacy.host /\ c.name = ".ROBLOSECURITY"

\* C32: in the legacy client, Login on a client whose jar already holds a
\* .ROBLOSECURITY cookie for the login URL's host returns ErrLoggedIn
\* without sending any request, and Login on a client without such a cookie
\* sends the login request.
C32_AlreadyLoggedInGuard ==
    legacy.op = "Client.Login" =>
        IF HeldSession
        THEN legacy.err = ErrLoggedIn /\ legacy.sent = <<>>
        ELSE /\ legacy.err # ErrLoggedIn
             /\ legacy.sent = <<[method |-> "POST", host |-> legacy.host,
                                 path |-> "loginPath"]>>

\* a Login that found the session cookie of an earlier login in the jar
C32_Witness ==
    /\ legacy.op = "Client.Login" /\ HeldSession
    /\ legacy.err = ErrLoggedIn /\ legacy.sent = <<>>

\* C33: in the legacy implementations a response whose status is outside
\* 200-299 (with a body that decodes and has no "errors" key) makes the
\* operation return a status error carrying that code.
C33_LegacyStatusError ==
    legacy.got # <<>> =>
        LET r == legacy.got[Len(legacy.got)]
        IN  (/\ ~r.fail /\ r.ok /\ ~r.errors
             /\ (r.StatusCode < 200 \/ r.StatusCode > 299))
                => legacy.err = StatusError(r.StatusCode)

====
